---- MODULE Spec2Model ----
(***************************************************************************)
(* A model of the React front end of the job-application dashboard.        *)
(*                                                                         *)
(* Every page component is a record of its useState hooks plus the HTTP    *)
(* requests it has in flight.  A step is one run of the browser event      *)
(* loop: a user event, a timer tick or the settling of one request,        *)
(* followed by the re-render and the effects that the re-render triggers.  *)
(* A request settles with one of three outcomes: "ok" (a successful        *)
(* response), "fail" (a response that is not successful: success=false or  *)
(* a non-2xx status) or "throw" (the awaited promise rejects).             *)
(*                                                                         *)
(* Each record also carries three observation fields: op (the handler      *)
(* that ran last), outcome (how its request settled, "none" when the step  *)
(* did not settle a request) and notice (the alert()/toast shown by the    *)
(* step, "none" when it showed none).                                      *)
(***************************************************************************)
EXTENDS Naturals, Integers, Sequences, FiniteSets, Bags, TLC

VARIABLES scraping, orch, subm, onb, testAI, matching, jobsList, tailoring,
          letters, router, dash

vars ==
    <<scraping, orch, subm, onb, testAI, matching, jobsList, tailoring, letters,
      router, dash>>

\* Bound of the model: requests of one kind a component may have in flight
\* before the model stops starting new ones by user events or timer ticks.
MaxInFlight == 2

\* Bound of the model: refreshes of the statistics and of the recent
\* applications that ApplicationSubmission may have in flight before the model
\* stops starting a submission that ends in another refresh.
MaxRefreshes == 1

Outcomes == {"ok", "fail", "throw"}
Failures == {"fail", "throw"}

\* React ignores a state update of a component that has been unmounted.
SetState(old, new) == IF old.mounted THEN new ELSE old

\* The observation fields of a step, written whether or not the component is
\* still mounted (alert() and toast do not depend on the component).
Observe(s, op, outcome, notice) ==
    [s EXCEPT !.op = op, !.outcome = outcome, !.notice = notice]

(***************************************************************************)
(* JobScraping                                                             *)
(***************************************************************************)
StatusData == {"s1", "s2"}

\* The variables of the other pages.
JobScraping_Others ==
    <<orch, subm, onb, testAI, matching, jobsList, tailoring, letters, router,
      dash>>

JobScraping_Init ==
    [mounted |-> TRUE, interval |-> TRUE,
     scrapingStatus |-> "null", loading |-> FALSE,
     manualScraping |-> FALSE, refreshing |-> TRUE,
     statusReqs |-> 1, scrapeReqs |-> 0, schedulerReqs |-> 0,
     op |-> "mount", outcome |-> "none", notice |-> "none"]

JobScraping_Unmounted ==
    [JobScraping_Init EXCEPT !.mounted = FALSE, !.interval = FALSE,
                             !.refreshing = FALSE, !.statusReqs = 0,
                             !.op = "none"]

\* The component returns the spinner alone while scrapingStatus is null.
JobScraping_ControlsRendered(s) == s.mounted /\ s.scrapingStatus # "null"

\* fetchScrapingStatus up to its await: setRefreshing(true), then the fetch.
JobScraping_fetchScrapingStatus_start(s) ==
    [SetState(s, [s EXCEPT !.refreshing = TRUE])
        EXCEPT !.statusReqs = s.statusReqs + 1]

\* A variant of fetchScrapingStatus that drops the loaded status when a
\* request fails.  C21 tells it from fetchScrapingStatus.
JobScraping_fetchScrapingStatus_clearOnFailure(s, o, data) ==
    LET t == [s EXCEPT !.scrapingStatus = IF o = "ok" THEN data ELSE "null",
                       !.refreshing = FALSE]
    IN  Observe([SetState(s, t) EXCEPT !.statusReqs = s.statusReqs - 1],
                "fetchScrapingStatus", o, "none")

\* fetchScrapingStatus after its await.
JobScraping_fetchScrapingStatus_done(s, o, data) ==
    LET t == [s EXCEPT !.scrapingStatus = IF o = "ok" THEN data ELSE @,
                       !.refreshing = FALSE]
    IN  Observe([SetState(s, t) EXCEPT !.statusReqs = s.statusReqs - 1],
                "fetchScrapingStatus", o, "none")

\* A variant of startManualScraping without the finally block: the flag is
\* reset on success only.  C2 tells it from the handler.
JobScraping_startManualScraping_noFinally(s, o) ==
    LET t == IF o = "ok"
             THEN JobScraping_fetchScrapingStatus_start(
                      SetState(s, [s EXCEPT !.manualScraping = FALSE]))
             ELSE s
    IN  Observe([t EXCEPT !.scrapeReqs = s.scrapeReqs - 1],
                "startManualScraping", o,
                IF o = "ok" THEN "Scraping started successfully"
                            ELSE "Failed to start scraping")

\* startManualScraping after its await.
JobScraping_startManualScraping_done(s, o) ==
    LET t == SetState(s, [s EXCEPT !.manualScraping = FALSE])
        u == IF o = "ok" THEN JobScraping_fetchScrapingStatus_start(t) ELSE t
    IN  Observe([u EXCEPT !.scrapeReqs = s.scrapeReqs - 1],
                "startManualScraping", o,
                IF o = "ok" THEN "Scraping started successfully"
                            ELSE "Failed to start scraping")

\* A variant of controlScheduler that only logs a failure.  C1 tells it from
\* the handler.
JobScraping_controlScheduler_silent(s, o) ==
    LET t == SetState(s, [s EXCEPT !.loading = FALSE])
        u == IF o = "ok" THEN JobScraping_fetchScrapingStatus_start(t) ELSE t
    IN  Observe([u EXCEPT !.schedulerReqs = s.schedulerReqs - 1],
                "controlScheduler", o,
                IF o = "ok" THEN "data.message" ELSE "none")

\* controlScheduler after its await.
JobScraping_controlScheduler_done(s, o) ==
    LET t == SetState(s, [s EXCEPT !.loading = FALSE])
        u == IF o = "ok" THEN JobScraping_fetchScrapingStatus_start(t) ELSE t
    IN  Observe([u EXCEPT !.schedulerReqs = s.schedulerReqs - 1],
                "controlScheduler", o,
                IF o = "ok" THEN "data.message"
                            ELSE "Failed to restart scheduler")

\* The 30-second interval fires.
JobScraping_Tick ==
    /\ scraping.interval
    /\ scraping.statusReqs < MaxInFlight
    /\ scraping' = Observe(JobScraping_fetchScrapingStatus_start(scraping),
                           "tick", "none", "none")
    /\ UNCHANGED JobScraping_Others

\* The Refresh button.
JobScraping_Refresh ==
    /\ JobScraping_ControlsRendered(scraping)
    /\ ~scraping.refreshing
    /\ scraping.statusReqs < MaxInFlight
    /\ scraping' = Observe(JobScraping_fetchScrapingStatus_start(scraping),
                           "refresh", "none", "none")
    /\ UNCHANGED JobScraping_Others

JobScraping_fetchScrapingStatus_settle ==
    /\ scraping.statusReqs > 0
    /\ \E o \in Outcomes, data \in StatusData :
          scraping' = JobScraping_fetchScrapingStatus_done(scraping, o, data)
    /\ UNCHANGED JobScraping_Others

\* The Start Scraping button.
JobScraping_startManualScraping ==
    /\ JobScraping_ControlsRendered(scraping)
    /\ ~scraping.manualScraping
    /\ scraping.statusReqs < MaxInFlight
    /\ scraping' = Observe([scraping EXCEPT !.manualScraping = TRUE,
                                            !.scrapeReqs = @ + 1],
                           "startManualScraping", "none", "none")
    /\ UNCHANGED JobScraping_Others

JobScraping_startManualScraping_settle ==
    /\ scraping.scrapeReqs > 0
    /\ \E o \in Outcomes :
          scraping' = JobScraping_startManualScraping_done(scraping, o)
    /\ UNCHANGED JobScraping_Others

\* The Restart Scheduler button.
JobScraping_controlScheduler ==
    /\ JobScraping_ControlsRendered(scraping)
    /\ ~scraping.loading
    /\ scraping.statusReqs < MaxInFlight
    /\ scraping' = Observe([scraping EXCEPT !.loading = TRUE,
                                            !.schedulerReqs = @ + 1],
                           "controlScheduler", "none", "none")
    /\ UNCHANGED JobScraping_Others

JobScraping_controlScheduler_settle ==
    /\ scraping.schedulerReqs > 0
    /\ \E o \in Outcomes :
          scraping' = JobScraping_controlScheduler_done(scraping, o)
    /\ UNCHANGED JobScraping_Others

\* A variant of the unmount without clearInterval.  C4 tells it from the
\* cleanup.
JobScraping_Unmount_noCleanup ==
    /\ scraping.mounted
    /\ scraping' = Observe([scraping EXCEPT !.mounted = FALSE],
                           "unmount", "none", "none")
    /\ UNCHANGED JobScraping_Others

\* The cleanup of the effect: clearInterval.
JobScraping_Unmount ==
    /\ scraping.mounted
    /\ scraping' = Observe([scraping EXCEPT !.mounted = FALSE,
                                            !.interval = FALSE],
                           "unmount", "none", "none")
    /\ UNCHANGED JobScraping_Others

JobScraping_Next ==
    \/ JobScraping_Tick
    \/ JobScraping_Refresh
    \/ JobScraping_fetchScrapingStatus_settle
    \/ JobScraping_startManualScraping
    \/ JobScraping_startManualScraping_settle
    \/ JobScraping_controlScheduler
    \/ JobScraping_controlScheduler_settle
    \/ JobScraping_Unmount

(***************************************************************************)
(* AutomationOrchestrator                                                  *)
(***************************************************************************)
\* What GET /api/automation/status may answer in data.status.status;
\* "missing" is a response without that field.
StatusPayloads == {"stopped", "initializing", "running", "error", "missing"}
\* What GET /api/automation/stats may answer in data.stats.
StatsPayloads == {"loaded", "missing"}

\* The variables of the other pages.
AutomationOrchestrator_Others ==
    <<scraping, subm, onb, testAI, matching, jobsList, tailoring, letters, router,
      dash>>

AutomationOrchestrator_Init ==
    [mounted |-> TRUE, interval |-> TRUE,
     systemStatus |-> "stopped", stats |-> "initial", isLoading |-> FALSE,
     statusReqs |-> 1, statsReqs |-> 1, ctlReq |-> "none", timers |-> 0,
     op |-> "mount", outcome |-> "none", notice |-> "none"]

AutomationOrchestrator_Unmounted ==
    [AutomationOrchestrator_Init EXCEPT !.mounted = FALSE, !.interval = FALSE,
                                        !.statusReqs = 0, !.statsReqs = 0,
                                        !.op = "none"]

\* fetchSystemStatus after its await: data.status?.status || 'stopped'.
AutomationOrchestrator_fetchSystemStatus_done(s, o, data) ==
    LET v == IF data = "missing" THEN "stopped" ELSE data
        t == [s EXCEPT !.systemStatus = IF o = "ok" THEN v ELSE @]
    IN  Observe([SetState(s, t) EXCEPT !.statusReqs = s.statusReqs - 1],
                "fetchSystemStatus", o, "none")

\* fetchStats after its await: data.stats || stats, where stats is the value
\* captured by the closure of the first render (the only callers are the
\* mount effect and its interval).
AutomationOrchestrator_fetchStats_done(s, o, data) ==
    LET v == IF data = "missing" THEN "initial" ELSE data
        t == [s EXCEPT !.stats = IF o = "ok" THEN v ELSE @]
    IN  Observe([SetState(s, t) EXCEPT !.statsReqs = s.statsReqs - 1],
                "fetchStats", o, "none")

\* A variant of startAutonomousSystem that sets 'initializing' whatever the
\* response.  C14 tells it from startAutonomousSystem.
AutomationOrchestrator_startAutonomousSystem_optimistic(s, o) ==
    LET t == [s EXCEPT !.systemStatus = "initializing", !.isLoading = FALSE]
    IN  Observe([SetState(s, t) EXCEPT
                    !.ctlReq = "none",
                    !.timers = IF o = "ok" THEN s.timers + 1 ELSE s.timers],
                "startAutonomousSystem", o,
                CASE o = "ok" -> "Autonomous system started successfully!"
                  [] o = "fail" -> "Failed to start autonomous system"
                  [] OTHER -> "Error starting autonomous system")

\* startAutonomousSystem after its await.
AutomationOrchestrator_startAutonomousSystem_done(s, o) ==
    LET t == [s EXCEPT !.systemStatus = IF o = "ok" THEN "initializing" ELSE @,
                       !.isLoading = FALSE]
    IN  Observe([SetState(s, t) EXCEPT
                    !.ctlReq = "none",
                    !.timers = IF o = "ok" THEN s.timers + 1 ELSE s.timers],
                "startAutonomousSystem", o,
                CASE o = "ok" -> "Autonomous system started successfully!"
                  [] o = "fail" -> "Failed to start autonomous system"
                  [] OTHER -> "Error starting autonomous system")

\* stopAutonomousSystem after its await.
AutomationOrchestrator_stopAutonomousSystem_done(s, o) ==
    LET t == [s EXCEPT !.systemStatus = IF o = "ok" THEN "stopped" ELSE @,
                       !.isLoading = FALSE]
    IN  Observe([SetState(s, t) EXCEPT !.ctlReq = "none"],
                "stopAutonomousSystem", o,
                CASE o = "ok" -> "Autonomous system stopped successfully!"
                  [] o = "fail" -> "Failed to stop autonomous system"
                  [] OTHER -> "Error stopping autonomous system")

\* The 30-second interval fires: fetchSystemStatus() and fetchStats().
AutomationOrchestrator_Tick ==
    /\ orch.interval
    /\ orch.statusReqs < MaxInFlight
    /\ orch.statsReqs < MaxInFlight
    /\ orch' = Observe([orch EXCEPT !.statusReqs = @ + 1, !.statsReqs = @ + 1],
                       "tick", "none", "none")
    /\ UNCHANGED AutomationOrchestrator_Others

\* setTimeout(fetchSystemStatus, 5000) fires; it is never cleared.
AutomationOrchestrator_Timeout ==
    /\ orch.timers > 0
    /\ orch' = Observe([orch EXCEPT !.timers = @ - 1, !.statusReqs = @ + 1],
                       "timeout", "none", "none")
    /\ UNCHANGED AutomationOrchestrator_Others

AutomationOrchestrator_fetchSystemStatus_settle ==
    /\ orch.statusReqs > 0
    /\ \E o \in Outcomes, data \in StatusPayloads :
          orch' = AutomationOrchestrator_fetchSystemStatus_done(orch, o, data)
    /\ UNCHANGED AutomationOrchestrator_Others

AutomationOrchestrator_fetchStats_settle ==
    /\ orch.statsReqs > 0
    /\ \E o \in Outcomes, data \in StatsPayloads :
          orch' = AutomationOrchestrator_fetchStats_done(orch, o, data)
    /\ UNCHANGED AutomationOrchestrator_Others

\* The Start button: disabled={isLoading || systemStatus === 'running'}.
AutomationOrchestrator_startAutonomousSystem ==
    /\ orch.mounted
    /\ ~(orch.isLoading \/ orch.systemStatus = "running")
    /\ orch.timers + orch.statusReqs < MaxInFlight
    /\ orch' = Observe([orch EXCEPT !.isLoading = TRUE, !.ctlReq = "start"],
                       "startAutonomousSystem", "none", "none")
    /\ UNCHANGED AutomationOrchestrator_Others

\* The Stop button: disabled={isLoading || systemStatus === 'stopped'}.
AutomationOrchestrator_stopAutonomousSystem ==
    /\ orch.mounted
    /\ ~(orch.isLoading \/ orch.systemStatus = "stopped")
    /\ orch' = Observe([orch EXCEPT !.isLoading = TRUE, !.ctlReq = "stop"],
                       "stopAutonomousSystem", "none", "none")
    /\ UNCHANGED AutomationOrchestrator_Others

AutomationOrchestrator_startAutonomousSystem_settle ==
    /\ orch.ctlReq = "start"
    /\ \E o \in Outcomes :
          orch' = AutomationOrchestrator_startAutonomousSystem_done(orch, o)
    /\ UNCHANGED AutomationOrchestrator_Others

AutomationOrchestrator_stopAutonomousSystem_settle ==
    /\ orch.ctlReq = "stop"
    /\ \E o \in Outcomes :
          orch' = AutomationOrchestrator_stopAutonomousSystem_done(orch, o)
    /\ UNCHANGED AutomationOrchestrator_Others

\* The cleanup of the effect: clearInterval.
AutomationOrchestrator_Unmount ==
    /\ orch.mounted
    /\ orch' = Observe([orch EXCEPT !.mounted = FALSE, !.interval = FALSE],
                       "unmount", "none", "none")
    /\ UNCHANGED AutomationOrchestrator_Others

AutomationOrchestrator_Next ==
    \/ AutomationOrchestrator_Tick
    \/ AutomationOrchestrator_Timeout
    \/ AutomationOrchestrator_fetchSystemStatus_settle
    \/ AutomationOrchestrator_fetchStats_settle
    \/ AutomationOrchestrator_startAutonomousSystem
    \/ AutomationOrchestrator_stopAutonomousSystem
    \/ AutomationOrchestrator_startAutonomousSystem_settle
    \/ AutomationOrchestrator_stopAutonomousSystem_settle
    \/ AutomationOrchestrator_Unmount

(***************************************************************************)
(* ApplicationSubmission                                                   *)
(***************************************************************************)
Candidates == {"c1", "c2"}
\* What GET /api/jobs may answer in data.jobs.
JobsPayloads == {<<>>, <<"j1", "j2">>}
Methods == {"direct_form", "email_apply"}
\* submissionConfig.batchSize: its initial value and one the user may enter.
DefaultBatchSize == 10
BatchSizes == {1, DefaultBatchSize}

\* jobs.slice(0, n)
Slice(jobs, n) == SubSeq(jobs, 1, IF n < Len(jobs) THEN n ELSE Len(jobs))

\* selectedCandidates.filter(id => id !== c)
Without(seq, c) == SelectSeq(seq, LAMBDA x : x # c)

NoBulk == [list |-> <<>>, idx |-> 0, jobIds |-> <<>>, method |-> "none"]

\* The variables of the other pages.
ApplicationSubmission_Others ==
    <<scraping, orch, onb, testAI, matching, jobsList, tailoring, letters, router,
      dash>>

ApplicationSubmission_Init ==
    [mounted |-> TRUE, loading |-> TRUE, submissionStatus |-> "idle",
     candidates |-> {}, jobs |-> <<>>, selectedCandidates |-> <<>>,
     method |-> "direct_form", batchSize |-> DefaultBatchSize,
     mountLoads |-> {"analytics", "candidates", "jobs"},
     statsReqs |-> 1, recentReqs |-> 1,
     autoReq |-> FALSE, testReq |-> FALSE,
     bulk |-> NoBulk,
     op |-> "mount", outcome |-> "none", notice |-> "none"]

ApplicationSubmission_Unmounted ==
    [ApplicationSubmission_Init EXCEPT !.mounted = FALSE, !.mountLoads = {},
                                       !.statsReqs = 0, !.recentReqs = 0,
                                       !.op = "none"]

\* The page body replaces the spinner once loading is false.
ApplicationSubmission_Rendered(s) == s.mounted /\ ~s.loading

\* fetchApplicationStats() and fetchRecentApplications() up to their awaits.
ApplicationSubmission_refresh(s) ==
    [s EXCEPT !.statsReqs = @ + 1, !.recentReqs = @ + 1]

\* The request in flight in the loop of handleBulkSubmit: the candidate at
\* position idx of the captured selection, with the job ids and the method
\* computed from the state of the render in which the button was clicked.
BulkRequest(b) ==
    [candidate_id |-> b.list[b.idx], job_ids |-> b.jobIds, method |-> b.method]

\* handleAutoSubmit after its await.
ApplicationSubmission_handleAutoSubmit_done(s, o) ==
    LET t == SetState(s, [s EXCEPT !.submissionStatus = "idle"])
        u == IF o = "ok" THEN ApplicationSubmission_refresh(t) ELSE t
    IN  Observe([u EXCEPT !.autoReq = FALSE], "handleAutoSubmit", o,
                CASE o = "ok" -> "Successfully queued applications"
                  [] o = "fail" -> "Failed to start auto-submission"
                  [] OTHER -> "Error starting auto-submission")

\* handleTestSubmission after its await.
ApplicationSubmission_handleTestSubmission_done(s, o) ==
    LET t == SetState(s, [s EXCEPT !.submissionStatus = "idle"])
    IN  Observe([t EXCEPT !.testReq = FALSE], "handleTestSubmission", o,
                CASE o = "ok" -> "Test submission completed successfully"
                  [] o = "fail" -> "Test submission failed"
                  [] OTHER -> "Error testing submission")

\* A variant of handleBulkSubmit with setSubmissionStatus('idle') after
\* every iteration of the loop.  C16 tells it from handleBulkSubmit.
ApplicationSubmission_handleBulkSubmit_idleEachIteration(s, o) ==
    LET b == s.bulk
        idle == SetState(s, [s EXCEPT !.submissionStatus = "idle"])
    IN  IF o = "throw"
        THEN Observe([idle EXCEPT !.bulk = NoBulk], "handleBulkSubmit", o,
                     "Error with bulk submission")
        ELSE IF b.idx < Len(b.list)
        THEN LET nb == [b EXCEPT !.idx = @ + 1]
             IN  Observe([idle EXCEPT !.bulk = nb], "handleBulkSubmit", o,
                         "none")
        ELSE Observe([ApplicationSubmission_refresh(idle) EXCEPT !.bulk = NoBulk],
                     "handleBulkSubmit", o, "Bulk submission completed")

\* A variant of handleBulkSubmit in which a response with success=false ends
\* the loop like a thrown error.  C17 tells it from handleBulkSubmit.
ApplicationSubmission_handleBulkSubmit_stopOnFailure(s, o) ==
    LET b == s.bulk
        idle == SetState(s, [s EXCEPT !.submissionStatus = "idle"])
    IN  IF o # "ok"
        THEN Observe([idle EXCEPT !.bulk = NoBulk], "handleBulkSubmit", o,
                     "Error with bulk submission")
        ELSE IF b.idx < Len(b.list)
        THEN LET nb == [b EXCEPT !.idx = @ + 1]
             IN  Observe([s EXCEPT !.bulk = nb], "handleBulkSubmit", o, "none")
        ELSE Observe([ApplicationSubmission_refresh(idle) EXCEPT !.bulk = NoBulk],
                     "handleBulkSubmit", o, "Bulk submission completed")

\* handleBulkSubmit after the await of one iteration: a thrown error leaves
\* the loop, success=false is logged and the loop goes on; after the last
\* candidate the alert and the two refreshes.
ApplicationSubmission_handleBulkSubmit_done(s, o) ==
    LET b == s.bulk
        idle == SetState(s, [s EXCEPT !.submissionStatus = "idle"])
    IN  IF o = "throw"
        THEN Observe([idle EXCEPT !.bulk = NoBulk], "handleBulkSubmit", o,
                     "Error with bulk submission")
        ELSE IF b.idx < Len(b.list)
        THEN LET nb == [b EXCEPT !.idx = @ + 1]
             IN  Observe([s EXCEPT !.bulk = nb], "handleBulkSubmit", o, "none")
        ELSE Observe([ApplicationSubmission_refresh(idle) EXCEPT !.bulk = NoBulk],
                     "handleBulkSubmit", o, "Bulk submission completed")

\* The three loads of the mount effect that are issued once.
ApplicationSubmission_mountLoad_settle ==
    /\ \E k \in subm.mountLoads, o \in Outcomes, jobs \in JobsPayloads :
          LET t == CASE k = "candidates" /\ o = "ok" ->
                           [subm EXCEPT !.candidates = Candidates]
                     [] k = "jobs" /\ o = "ok" -> [subm EXCEPT !.jobs = jobs]
                     [] OTHER -> subm
          IN  subm' = Observe([SetState(subm, t) EXCEPT !.mountLoads = @ \ {k}],
                              k, o, "none")
    /\ UNCHANGED ApplicationSubmission_Others

ApplicationSubmission_fetchApplicationStats_settle ==
    /\ subm.statsReqs > 0
    /\ \E o \in Outcomes :
          subm' = Observe([subm EXCEPT !.statsReqs = @ - 1],
                          "fetchApplicationStats", o, "none")
    /\ UNCHANGED ApplicationSubmission_Others

\* fetchRecentApplications after its await: finally setLoading(false).
ApplicationSubmission_fetchRecentApplications_settle ==
    /\ subm.recentReqs > 0
    /\ \E o \in Outcomes :
          subm' = Observe([SetState(subm, [subm EXCEPT !.loading = FALSE])
                              EXCEPT !.recentReqs = subm.recentReqs - 1],
                          "fetchRecentApplications", o, "none")
    /\ UNCHANGED ApplicationSubmission_Others

\* A candidate's checkbox.
ApplicationSubmission_toggleCandidate ==
    /\ ApplicationSubmission_Rendered(subm)
    /\ \E c \in subm.candidates :
          subm' = Observe(
             [subm EXCEPT !.selectedCandidates =
                 IF \E i \in 1..Len(@) : @[i] = c
                 THEN Without(@, c) ELSE Append(@, c)],
             "toggleCandidate", "none", "none")
    /\ UNCHANGED ApplicationSubmission_Others

\* The method select and the batch size input.
ApplicationSubmission_setSubmissionConfig ==
    /\ ApplicationSubmission_Rendered(subm)
    /\ \E m \in Methods, n \in BatchSizes :
          /\ <<m, n>> # <<subm.method, subm.batchSize>>
          /\ subm' = Observe([subm EXCEPT !.method = m, !.batchSize = n],
                             "setSubmissionConfig", "none", "none")
    /\ UNCHANGED ApplicationSubmission_Others

\* The Auto Submit button: disabled={submissionStatus !== 'idle'}.
ApplicationSubmission_handleAutoSubmit ==
    /\ ApplicationSubmission_Rendered(subm)
    /\ subm.submissionStatus = "idle"
    /\ subm.statsReqs + subm.recentReqs < MaxRefreshes
    /\ subm' = Observe([subm EXCEPT !.submissionStatus = "running",
                                    !.autoReq = TRUE],
                       "handleAutoSubmit", "none", "none")
    /\ UNCHANGED ApplicationSubmission_Others

\* The Test Submission button.
ApplicationSubmission_handleTestSubmission ==
    /\ ApplicationSubmission_Rendered(subm)
    /\ subm.submissionStatus = "idle"
    /\ subm' = Observe([subm EXCEPT !.submissionStatus = "testing",
                                    !.testReq = TRUE],
                       "handleTestSubmission", "none", "none")
    /\ UNCHANGED ApplicationSubmission_Others

\* The Bulk Submit button, up to the first await of the loop.
ApplicationSubmission_handleBulkSubmit ==
    /\ ApplicationSubmission_Rendered(subm)
    /\ subm.submissionStatus = "idle"
    /\ subm.statsReqs + subm.recentReqs < MaxRefreshes
    /\ IF Len(subm.selectedCandidates) = 0
       THEN subm' = Observe(subm, "handleBulkSubmit", "none",
                            "Please select at least one candidate")
       ELSE LET b == [list |-> subm.selectedCandidates, idx |-> 1,
                      jobIds |-> Slice(subm.jobs, subm.batchSize),
                      method |-> subm.method]
            IN  subm' = Observe([subm EXCEPT !.submissionStatus = "running",
                                             !.bulk = b],
                                "handleBulkSubmit", "none", "none")
    /\ UNCHANGED ApplicationSubmission_Others

ApplicationSubmission_handleAutoSubmit_settle ==
    /\ subm.autoReq
    /\ \E o \in Outcomes :
          subm' = ApplicationSubmission_handleAutoSubmit_done(subm, o)
    /\ UNCHANGED ApplicationSubmission_Others

ApplicationSubmission_handleTestSubmission_settle ==
    /\ subm.testReq
    /\ \E o \in Outcomes :
          subm' = ApplicationSubmission_handleTestSubmission_done(subm, o)
    /\ UNCHANGED ApplicationSubmission_Others

ApplicationSubmission_handleBulkSubmit_settle ==
    /\ subm.bulk.idx > 0
    /\ \E o \in Outcomes :
          subm' = ApplicationSubmission_handleBulkSubmit_done(subm, o)
    /\ UNCHANGED ApplicationSubmission_Others

ApplicationSubmission_Unmount ==
    /\ subm.mounted
    /\ subm' = Observe([subm EXCEPT !.mounted = FALSE],
                       "unmount", "none", "none")
    /\ UNCHANGED ApplicationSubmission_Others

ApplicationSubmission_Next ==
    \/ ApplicationSubmission_mountLoad_settle
    \/ ApplicationSubmission_fetchApplicationStats_settle
    \/ ApplicationSubmission_fetchRecentApplications_settle
    \/ ApplicationSubmission_toggleCandidate
    \/ ApplicationSubmission_setSubmissionConfig
    \/ ApplicationSubmission_handleAutoSubmit
    \/ ApplicationSubmission_handleTestSubmission
    \/ ApplicationSubmission_handleBulkSubmit
    \/ ApplicationSubmission_handleAutoSubmit_settle
    \/ ApplicationSubmission_handleTestSubmission_settle
    \/ ApplicationSubmission_handleBulkSubmit_settle
    \/ ApplicationSubmission_Unmount

(***************************************************************************)
(* CandidateOnboarding                                                     *)
(***************************************************************************)
\* What the user may have typed into the two starred fields of step 1.
Names == {"", "John Doe"}
Emails == {"", "john@example.com"}
\* Bound of the model: candidates the backend creates in one wizard session.
MaxCreated == 2

NoRequest == [kind |-> "none"]

\* The variables of the other pages.
CandidateOnboarding_Others ==
    <<scraping, orch, subm, testAI, matching, jobsList, tailoring, letters, router,
      dash>>

CandidateOnboarding_Init ==
    [mounted |-> TRUE, currentStep |-> 1, loading |-> FALSE,
     full_name |-> "", email |-> "", uploadedFile |-> FALSE,
     resumeAnalysis |-> FALSE,
     req |-> NoRequest, created |-> 0, navigated |-> 0,
     op |-> "mount", outcome |-> "none", notice |-> "none"]

CandidateOnboarding_Unmounted ==
    [CandidateOnboarding_Init EXCEPT !.mounted = FALSE, !.op = "none"]

\* A variant of nextStep without its guard.  C7 tells it from nextStep.
nextStep_unguarded(currentStep) == currentStep + 1

nextStep(currentStep) ==
    IF currentStep < 4 THEN currentStep + 1 ELSE currentStep

prevStep(currentStep) ==
    IF currentStep > 1 THEN currentStep - 1 ELSE currentStep

\* The footer shows Next while currentStep < 4 and Create Candidate otherwise.
CandidateOnboarding_NextOffered(s) == s.currentStep < 4
CandidateOnboarding_CreateOffered(s) == ~(s.currentStep < 4)
\* disabled={currentStep === 1 && !formData.full_name}
CandidateOnboarding_NextDisabled(s) == s.currentStep = 1 /\ s.full_name = ""

\* navigate(`/candidates/${id}`) replaces the page; the finally block's
\* setLoading(false) then meets an unmounted component.
CandidateOnboarding_navigate(s, id) ==
    [s EXCEPT !.navigated = id, !.mounted = FALSE]

\* A variant of handleSubmit that does not await the upload before it
\* navigates.  C12 tells it from handleSubmit.
CandidateOnboarding_handleSubmit_uploadNotAwaited(s, o) ==
    IF o # "ok"
    THEN Observe([SetState(s, [s EXCEPT !.loading = FALSE])
                     EXCEPT !.req = NoRequest],
                 "handleSubmit", o, "Failed to create candidate")
    ELSE LET id == s.created + 1
             t == [s EXCEPT !.created = id]
         IN  Observe([CandidateOnboarding_navigate(t, id)
                         EXCEPT !.req = IF s.req.file
                                        THEN [kind |-> "upload", id |-> id]
                                        ELSE NoRequest],
                     "handleSubmit", o, "Candidate created successfully!")

\* handleSubmit after the await of POST /api/candidates.  axios rejects on a
\* non-2xx response, so both failures reach the catch block.  uploadedFile is
\* the value captured by the closure of the click.
CandidateOnboarding_handleSubmit_created(s, o) ==
    IF o # "ok"
    THEN Observe([SetState(s, [s EXCEPT !.loading = FALSE])
                     EXCEPT !.req = NoRequest],
                 "handleSubmit", o, "Failed to create candidate")
    ELSE LET id == s.created + 1
             t == [s EXCEPT !.created = id]
         IN  IF s.req.file
             THEN Observe([t EXCEPT !.req = [kind |-> "upload", id |-> id]],
                          "handleSubmit", o, "Candidate created successfully!")
             ELSE Observe([CandidateOnboarding_navigate(t, id)
                              EXCEPT !.req = NoRequest],
                          "handleSubmit", o, "Candidate created successfully!")

\* uploadResume after its await, and the rest of handleSubmit: a failed upload
\* is rethrown into the catch block of handleSubmit.
CandidateOnboarding_uploadResume_done(s, o) ==
    IF o # "ok"
    THEN Observe([SetState(s, [s EXCEPT !.loading = FALSE])
                     EXCEPT !.req = NoRequest],
                 "uploadResume", o, "Failed to create candidate")
    ELSE Observe([CandidateOnboarding_navigate(
                      SetState(s, [s EXCEPT !.resumeAnalysis = TRUE]), s.req.id)
                     EXCEPT !.req = NoRequest],
                 "uploadResume", o, "Resume uploaded and analyzed!")

\* handleInputChange on the fields of step 1.
CandidateOnboarding_handleInputChange ==
    /\ onb.mounted /\ onb.currentStep = 1
    /\ \E n \in Names, e \in Emails :
          /\ <<n, e>> # <<onb.full_name, onb.email>>
          /\ onb' = Observe([onb EXCEPT !.full_name = n, !.email = e],
                            "handleInputChange", "none", "none")
    /\ UNCHANGED CandidateOnboarding_Others

\* onDrop of the dropzone of step 2.
CandidateOnboarding_onDrop ==
    /\ onb.mounted /\ onb.currentStep = 2
    /\ ~onb.uploadedFile
    /\ onb' = Observe([onb EXCEPT !.uploadedFile = TRUE],
                      "onDrop", "none", "none")
    /\ UNCHANGED CandidateOnboarding_Others

\* The Next button.
CandidateOnboarding_nextStep ==
    /\ onb.mounted
    /\ CandidateOnboarding_NextOffered(onb)
    /\ ~CandidateOnboarding_NextDisabled(onb)
    /\ onb' = Observe([onb EXCEPT !.currentStep = nextStep(@)],
                      "nextStep", "none", "none")
    /\ UNCHANGED CandidateOnboarding_Others

\* The Previous button: disabled={currentStep === 1}.
CandidateOnboarding_prevStep ==
    /\ onb.mounted
    /\ onb.currentStep # 1
    /\ onb' = Observe([onb EXCEPT !.currentStep = prevStep(@)],
                      "prevStep", "none", "none")
    /\ UNCHANGED CandidateOnboarding_Others

\* The Create Candidate button: disabled={loading}.
CandidateOnboarding_handleSubmit ==
    /\ onb.mounted
    /\ CandidateOnboarding_CreateOffered(onb)
    /\ ~onb.loading
    /\ onb.created < MaxCreated
    /\ onb' = Observe([onb EXCEPT !.loading = TRUE,
                                  !.req = [kind |-> "create",
                                           full_name |-> onb.full_name,
                                           email |-> onb.email,
                                           file |-> onb.uploadedFile]],
                      "handleSubmit", "none", "none")
    /\ UNCHANGED CandidateOnboarding_Others

CandidateOnboarding_handleSubmit_settle ==
    /\ onb.req.kind = "create"
    /\ \E o \in Outcomes :
          onb' = CandidateOnboarding_handleSubmit_created(onb, o)
    /\ UNCHANGED CandidateOnboarding_Others

CandidateOnboarding_uploadResume_settle ==
    /\ onb.req.kind = "upload"
    /\ \E o \in Outcomes :
          onb' = CandidateOnboarding_uploadResume_done(onb, o)
    /\ UNCHANGED CandidateOnboarding_Others

\* The user leaves the page through the sidebar.
CandidateOnboarding_Unmount ==
    /\ onb.mounted
    /\ onb' = Observe([onb EXCEPT !.mounted = FALSE],
                      "unmount", "none", "none")
    /\ UNCHANGED CandidateOnboarding_Others

CandidateOnboarding_Next ==
    \/ CandidateOnboarding_handleInputChange
    \/ CandidateOnboarding_onDrop
    \/ CandidateOnboarding_nextStep
    \/ CandidateOnboarding_prevStep
    \/ CandidateOnboarding_handleSubmit
    \/ CandidateOnboarding_handleSubmit_settle
    \/ CandidateOnboarding_uploadResume_settle
    \/ CandidateOnboarding_Unmount

(***************************************************************************)
(* TestAI                                                                  *)
(*                                                                         *)
(* The handlers are modelled as they are declared.  The page's JSX passes  *)
(* the health card an identifier, testSystemHealth, that the file never    *)
(* declares (the handler is named checkSystemHealth); the model takes the  *)
(* card to run checkSystemHealth.                                          *)
(***************************************************************************)
TestKeys == {"jobMatch", "coverLetter", "health"}
Undefined == "undefined"
Null == "null"
\* response.data.match, response.data.cover_letter, response.data
Payload(key) == CASE key = "jobMatch" -> "match"
                  [] key = "coverLetter" -> "cover_letter"
                  [] OTHER -> "health_data"

\* The message the catch block stores: error.response?.data?.detail when the
\* backend answered with one (o = "fail"), otherwise error.message
\* (testJobMatching) or a fixed text (the other two).
ErrorText(key, o) ==
    CASE o = "fail" -> "detail"
      [] key = "jobMatch" -> "error.message"
      [] key = "coverLetter" -> "Test failed"
      [] OTHER -> "Health check failed"

\* The variables of the other pages.
TestAI_Others ==
    <<scraping, orch, subm, onb, matching, jobsList, tailoring, letters, router,
      dash>>

TestAI_Init ==
    [mounted |-> TRUE, candidates |-> {}, selectedCandidate |-> "",
     jobDescription |-> "", companyName |-> "",
     loading |-> [k \in TestKeys |-> Undefined],
     results |-> [k \in TestKeys |-> Undefined],
     errors |-> [k \in TestKeys |-> Undefined],
     candidatesReq |-> TRUE, reqs |-> {},
     op |-> "mount", outcome |-> "none", notice |-> "none"]

TestAI_Unmounted ==
    [TestAI_Init EXCEPT !.mounted = FALSE, !.candidatesReq = FALSE,
                        !.op = "none"]

\* setTestState(testName, { loading, result, error }): a key the caller
\* leaves out arrives as undefined; each of the three tests is
\* `!== undefined`, so a null is a value like any other.  The values of
\* loading are written "true" and "false" beside "undefined".
setTestState(s, testName, isLoading, result, error) ==
    LET s1 == IF isLoading # Undefined
              THEN [s EXCEPT !.loading[testName] = isLoading] ELSE s
        s2 == IF result # Undefined
              THEN [s1 EXCEPT !.results[testName] = result,
                              !.errors[testName] = Null]
              ELSE s1
        s3 == IF error # Undefined
              THEN [s2 EXCEPT !.errors[testName] = error,
                              !.results[testName] = Null]
              ELSE s2
    IN  s3

\* testJobMatching after its await.
TestAI_testJobMatching_done(s, o) ==
    IF o = "ok"
    THEN Observe(SetState(s, setTestState(s, "jobMatch", "false",
                                          Payload("jobMatch"), Null)),
                 "testJobMatching", o, "Job matching test completed!")
    ELSE Observe(SetState(s, setTestState(s, "jobMatch", "false", Null,
                                          ErrorText("jobMatch", o))),
                 "testJobMatching", o, "Job matching test failed")

\* testCoverLetter after its await: the try or the catch block, then finally.
TestAI_testCoverLetter_done(s, o) ==
    LET t == IF o = "ok"
             THEN setTestState(s, "coverLetter", Undefined,
                               Payload("coverLetter"), Undefined)
             ELSE setTestState(s, "coverLetter", Undefined, Undefined,
                               ErrorText("coverLetter", o))
        u == setTestState(t, "coverLetter", "false", Undefined, Undefined)
    IN  Observe(SetState(s, u), "testCoverLetter", o,
                IF o = "ok" THEN "Cover letter generation test completed!"
                            ELSE "Cover letter test failed")

\* checkSystemHealth after its await.
TestAI_checkSystemHealth_done(s, o) ==
    LET t == IF o = "ok"
             THEN setTestState(s, "health", Undefined, Payload("health"),
                               Undefined)
             ELSE setTestState(s, "health", Undefined, Undefined,
                               ErrorText("health", o))
        u == setTestState(t, "health", "false", Undefined, Undefined)
    IN  Observe(SetState(s, u), "checkSystemHealth", o,
                IF o = "ok" THEN "System health check completed!"
                            ELSE "System health check failed")

\* fetchCandidates after its await.
TestAI_fetchCandidates_settle ==
    /\ testAI.candidatesReq
    /\ \E o \in Outcomes, cs \in {{}, {"c1"}} :
          LET t == IF o = "ok"
                   THEN [testAI EXCEPT !.candidates = cs,
                            !.selectedCandidate = IF cs # {} THEN "c1" ELSE @]
                   ELSE testAI
          IN  testAI' = Observe([SetState(testAI, t)
                                    EXCEPT !.candidatesReq = FALSE],
                                "fetchCandidates", o,
                                IF o = "ok" THEN "none"
                                ELSE "Failed to load candidates")
    /\ UNCHANGED TestAI_Others

\* The candidate select, the job description and the company name inputs.
TestAI_edit ==
    /\ testAI.mounted
    /\ \E c \in {""} \cup testAI.candidates, j \in {"", "jd"}, n \in {"", "co"} :
          /\ <<c, j, n>> # <<testAI.selectedCandidate, testAI.jobDescription,
                             testAI.companyName>>
          /\ testAI' = Observe([testAI EXCEPT !.selectedCandidate = c,
                                              !.jobDescription = j,
                                              !.companyName = n],
                               "edit", "none", "none")
    /\ UNCHANGED TestAI_Others

\* A card's button is disabled while loading[key] is truthy.
TestAI_Enabled(key) ==
    /\ testAI.mounted
    /\ testAI.loading[key] # "true"

TestAI_testJobMatching ==
    /\ TestAI_Enabled("jobMatch")
    /\ IF testAI.selectedCandidate = "" \/ testAI.jobDescription = ""
       THEN testAI' = Observe(testAI, "testJobMatching", "none",
                "Please select a candidate and enter a job description")
       ELSE testAI' = Observe(
                [setTestState(testAI, "jobMatch", "true", Undefined, Undefined)
                    EXCEPT !.reqs = @ \cup {"jobMatch"}],
                "testJobMatching", "none", "none")
    /\ UNCHANGED TestAI_Others

TestAI_testCoverLetter ==
    /\ TestAI_Enabled("coverLetter")
    /\ IF testAI.selectedCandidate = "" \/ testAI.jobDescription = ""
          \/ testAI.companyName = ""
       THEN testAI' = Observe(testAI, "testCoverLetter", "none",
                              "Please fill in all required fields")
       ELSE testAI' = Observe(
                [setTestState(testAI, "coverLetter", "true", Undefined, Undefined)
                    EXCEPT !.reqs = @ \cup {"coverLetter"}],
                "testCoverLetter", "none", "none")
    /\ UNCHANGED TestAI_Others

TestAI_checkSystemHealth ==
    /\ TestAI_Enabled("health")
    /\ testAI' = Observe(
           [setTestState(testAI, "health", "true", Undefined, Undefined)
               EXCEPT !.reqs = @ \cup {"health"}],
           "checkSystemHealth", "none", "none")
    /\ UNCHANGED TestAI_Others

TestAI_testJobMatching_settle ==
    /\ "jobMatch" \in testAI.reqs
    /\ \E o \in Outcomes :
          testAI' = [TestAI_testJobMatching_done(testAI, o)
                        EXCEPT !.reqs = @ \ {"jobMatch"}]
    /\ UNCHANGED TestAI_Others

TestAI_testCoverLetter_settle ==
    /\ "coverLetter" \in testAI.reqs
    /\ \E o \in Outcomes :
          testAI' = [TestAI_testCoverLetter_done(testAI, o)
                        EXCEPT !.reqs = @ \ {"coverLetter"}]
    /\ UNCHANGED TestAI_Others

TestAI_checkSystemHealth_settle ==
    /\ "health" \in testAI.reqs
    /\ \E o \in Outcomes :
          testAI' = [TestAI_checkSystemHealth_done(testAI, o)
                        EXCEPT !.reqs = @ \ {"health"}]
    /\ UNCHANGED TestAI_Others

TestAI_Unmount ==
    /\ testAI.mounted
    /\ testAI' = Observe([testAI EXCEPT !.mounted = FALSE],
                         "unmount", "none", "none")
    /\ UNCHANGED TestAI_Others

TestAI_Next ==
    \/ TestAI_fetchCandidates_settle
    \/ TestAI_edit
    \/ TestAI_testJobMatching
    \/ TestAI_testCoverLetter
    \/ TestAI_checkSystemHealth
    \/ TestAI_testJobMatching_settle
    \/ TestAI_testCoverLetter_settle
    \/ TestAI_checkSystemHealth_settle
    \/ TestAI_Unmount

(***************************************************************************)
(* JobMatching                                                             *)
(***************************************************************************)
\* Strings are sequences of characters; the model's alphabet has two
\* letters in both cases.
Lower(ch) == CASE ch = "A" -> "a" [] ch = "B" -> "b" [] OTHER -> ch

\* String.prototype.toLowerCase
toLowerCase(str) == [i \in 1..Len(str) |-> Lower(str[i])]

\* String.prototype.includes
includes(str, sub) ==
    \E i \in 0..(Len(str) - Len(sub)) : SubSeq(str, i + 1, i + Len(sub)) = sub

\* A property that may be undefined: None, or Some(v) when it has the value v.
None == <<>>
Some(v) == <<v>>

\* The job_data objects of the model's matches: a field may be missing.
JobDatas ==
    {[title |-> Some(<<"A", "b">>), company |-> None, location |-> Some(<<"b">>)],
     [title |-> None, company |-> Some(<<"b", "A">>), location |-> None],
     [title |-> Some(<<"B">>), company |-> Some(<<>>),
      location |-> Some(<<"a", "B">>)]}

Priorities == {"high", "low"}

\* The matches the backend may hold for a candidate; job_data itself may be
\* missing.
MatchesOf(c) ==
    [candidate : {c}, priority : Priorities,
     job_data : {Some(j) : j \in JobDatas} \cup {None}]

\* Bound of the model: the length of a list of matches.
MaxMatches == 2

RECURSIVE ListsOver(_, _)
ListsOver(S, n) ==
    IF n = 0 THEN {<<>>}
    ELSE LET shorter == ListsOver(S, n - 1)
         IN  shorter \cup {Append(l, x) : l \in {k \in shorter : Len(k) = n - 1},
                                          x \in S}

\* What the filter select offers, and what the user may type as search term.
FilterValues == {"all", "high", "medium", "low"}
SearchTerms == {<<>>, <<"a">>, <<"A", "B">>, <<"b">>}

\* One match of every candidate, for the specifications that follow the
\* requests rather than the filter.
SampleMatch(c) ==
    [candidate |-> c, priority |-> "high", job_data |-> None]
\* response.data.matches of GET /api/candidates/{c}/matches
SampleResponses(c) == {"missing", <<SampleMatch(c)>>}

\* response.data of GET /api/candidates
CandidateLists == {<<>>, <<"c1", "c2">>}

Idle == [phase |-> "idle", cand |-> ""]

\* The variables of the other pages.
JobMatching_Others ==
    <<scraping, orch, subm, onb, testAI, jobsList, tailoring, letters, router,
      dash>>

JobMatching_Init ==
    [mounted |-> TRUE, candidates |-> <<>>, selectedCandidate |-> "",
     matches |-> <<>>, loading |-> FALSE,
     processingMatches |-> FALSE, processingAll |-> FALSE,
     stats |-> "initial", filter |-> "all", searchTerm |-> <<>>,
     candidatesReq |-> TRUE, statsReqs |-> 1,
     matchReqs |-> [c \in Candidates |-> 0],
     proc |-> Idle, all |-> Idle,
     op |-> "mount", arg |-> "", outcome |-> "none", notice |-> "none"]

JobMatching_Unmounted ==
    [JobMatching_Init EXCEPT !.mounted = FALSE, !.candidatesReq = FALSE,
                             !.statsReqs = 0, !.op = "none"]

ObserveArg(s, op, arg, outcome, notice) ==
    [Observe(s, op, outcome, notice) EXCEPT !.arg = arg]

\* A variant of the filter that compares searchTerm as typed.  C10 tells it
\* from the filter.
KeepMatch_caseSensitive(match, filter, searchTerm) ==
    IF filter # "all" /\ match.priority # filter THEN FALSE
    ELSE IF searchTerm # <<>>
    THEN LET job == IF match.job_data = None
                    THEN [title |-> None, company |-> None, location |-> None]
                    ELSE match.job_data[1]
             has(field) == /\ field # None
                           /\ includes(toLowerCase(field[1]), searchTerm)
         IN  has(job.title) \/ has(job.company) \/ has(job.location)
    ELSE TRUE

\* The matches shown: matches.filter(match => ...).
KeepMatch(match, filter, searchTerm) ==
    IF filter # "all" /\ match.priority # filter THEN FALSE
    ELSE IF searchTerm # <<>>
    THEN LET \* match.job_data || {}
             job == IF match.job_data = None
                    THEN [title |-> None, company |-> None, location |-> None]
                    ELSE match.job_data[1]
             searchLower == toLowerCase(searchTerm)
             \* job.field?.toLowerCase().includes(searchLower)
             has(field) == /\ field # None
                           /\ includes(toLowerCase(field[1]), searchLower)
         IN  has(job.title) \/ has(job.company) \/ has(job.location)
    ELSE TRUE

filteredMatches(s) ==
    SelectSeq(s.matches, LAMBDA match : KeepMatch(match, s.filter, s.searchTerm))

\* fetchCandidateMatches up to its await.
JobMatching_fetchCandidateMatches_start(s) ==
    SetState(s, [s EXCEPT !.loading = TRUE])

\* fetchCandidateMatches after its await: response.data.matches || [], or
\* the catch block's setMatches([]).  axios rejects on a non-2xx response.
JobMatching_fetchCandidateMatches_done(s, o, data) ==
    LET ms == IF o = "ok" /\ data # "missing" THEN data ELSE <<>>
    IN  SetState(s, [s EXCEPT !.matches = ms, !.loading = FALSE])

\* fetchMatchingStats after its await: response.data.stats || {}.
JobMatching_fetchMatchingStats_done(s, o) ==
    SetState(s, [s EXCEPT !.stats = IF o = "ok" THEN "loaded" ELSE @])

\* fetchCandidates after its await.  selectedCandidate is the value captured
\* by the closure of the first render, the empty string.
JobMatching_fetchCandidates_settle ==
    /\ matching.candidatesReq
    /\ \E o \in Outcomes, cs \in CandidateLists :
          LET t == IF o = "ok"
                   THEN [matching EXCEPT !.candidates = cs,
                            !.selectedCandidate = IF Len(cs) > 0 THEN cs[1]
                                                  ELSE @]
                   ELSE matching
          IN  matching' = ObserveArg([SetState(matching, t)
                                         EXCEPT !.candidatesReq = FALSE],
                                     "fetchCandidates", "", o,
                                     IF o = "ok" THEN "none"
                                     ELSE "Failed to load candidates")
    /\ UNCHANGED JobMatching_Others

JobMatching_fetchMatchingStats_settle ==
    /\ matching.statsReqs > 0
    /\ \E o \in Outcomes :
          matching' = ObserveArg(
              [JobMatching_fetchMatchingStats_done(matching, o)
                  EXCEPT !.statsReqs = matching.statsReqs - 1],
              "fetchMatchingStats", "", o, "none")
    /\ UNCHANGED JobMatching_Others

\* The requests in flight, for the guards that keep the model finite.
JobMatching_InFlight(s) ==
    s.matchReqs["c1"] + s.matchReqs["c2"] + s.statsReqs
        + (IF s.candidatesReq THEN 1 ELSE 0)
        + (IF s.proc.phase # "idle" THEN 1 ELSE 0)
        + (IF s.all.phase # "idle" THEN 1 ELSE 0)

\* The candidate select.
JobMatching_handleCandidateChange ==
    /\ matching.mounted
    /\ JobMatching_InFlight(matching) < MaxInFlight
    /\ \E c \in {""} \cup {matching.candidates[i] :
                               i \in 1..Len(matching.candidates)} :
          LET t == [matching EXCEPT !.selectedCandidate = c, !.matches = <<>>]
              u == IF c # ""
                   THEN [JobMatching_fetchCandidateMatches_start(t)
                            EXCEPT !.matchReqs[c] = @ + 1]
                   ELSE t
          IN  matching' = ObserveArg(u, "handleCandidateChange", c,
                                     "none", "none")
    /\ UNCHANGED JobMatching_Others

\* The Refresh button: rendered for a selected candidate, disabled={loading}.
JobMatching_Refresh ==
    /\ matching.mounted
    /\ matching.selectedCandidate # ""
    /\ ~matching.loading
    /\ JobMatching_InFlight(matching) < MaxInFlight
    /\ LET c == matching.selectedCandidate
       IN  matching' = ObserveArg(
               [JobMatching_fetchCandidateMatches_start(matching)
                   EXCEPT !.matchReqs[c] = @ + 1],
               "refresh", c, "none", "none")
    /\ UNCHANGED JobMatching_Others

\* A matches request that no handler awaits settles.
JobMatching_fetchCandidateMatches_settle ==
    /\ \E c \in Candidates, o \in Outcomes :
       \E data \in SampleResponses(c) :
          /\ matching.matchReqs[c] > 0
          /\ matching' = ObserveArg(
                 [JobMatching_fetchCandidateMatches_done(matching, o, data)
                     EXCEPT !.matchReqs[c] = matching.matchReqs[c] - 1],
                 "fetchCandidateMatches", c, o,
                 IF o = "ok" THEN "none" ELSE "Failed to load matches")
    /\ UNCHANGED JobMatching_Others

\* The Process Matches button:
\* disabled={processingMatches || !selectedCandidate}.
JobMatching_processCandidateMatches ==
    /\ matching.mounted
    /\ ~(matching.processingMatches \/ matching.selectedCandidate = "")
    /\ JobMatching_InFlight(matching) < MaxInFlight
    /\ matching' = ObserveArg(
           [matching EXCEPT !.processingMatches = TRUE,
                            !.proc = [phase |-> "post",
                                      cand |-> matching.selectedCandidate]],
           "processCandidateMatches", matching.selectedCandidate,
           "none", "none")
    /\ UNCHANGED JobMatching_Others

\* processCandidateMatches after one of its three awaits: the POST, then
\* fetchCandidateMatches, then fetchMatchingStats; the two fetches catch their
\* own errors, so only a failed POST reaches the catch block.
JobMatching_processCandidateMatches_step(s, o, data) ==
    LET p == s.proc
    IN  CASE p.phase = "post" /\ o = "ok" ->
               ObserveArg([JobMatching_fetchCandidateMatches_start(s)
                              EXCEPT !.proc.phase = "matches"],
                          "processCandidateMatches", p.cand, o,
                          "Found matches!")
          [] p.phase = "post" /\ o # "ok" ->
               ObserveArg([SetState(s, [s EXCEPT !.processingMatches = FALSE])
                              EXCEPT !.proc = Idle],
                          "processCandidateMatches", p.cand, o,
                          "Failed to process matches")
          [] p.phase = "matches" ->
               ObserveArg([JobMatching_fetchCandidateMatches_done(s, o, data)
                              EXCEPT !.proc.phase = "stats"],
                          "fetchCandidateMatches", p.cand, o,
                          IF o = "ok" THEN "none" ELSE "Failed to load matches")
          [] OTHER ->
               LET t == JobMatching_fetchMatchingStats_done(s, o)
               IN  ObserveArg([SetState(t, [t EXCEPT !.processingMatches = FALSE])
                                  EXCEPT !.proc = Idle],
                              "fetchMatchingStats", "", o, "none")

JobMatching_processCandidateMatches_settle ==
    /\ matching.proc.phase # "idle"
    /\ \E o \in Outcomes, data \in SampleResponses(matching.proc.cand) :
          matching' = JobMatching_processCandidateMatches_step(matching, o, data)
    /\ UNCHANGED JobMatching_Others

\* The Process All Candidates button: disabled={processingAll}.
JobMatching_processAllCandidates ==
    /\ matching.mounted
    /\ ~matching.processingAll
    /\ JobMatching_InFlight(matching) < MaxInFlight
    /\ matching' = ObserveArg(
           [matching EXCEPT !.processingAll = TRUE,
                            !.all = [phase |-> "post",
                                     cand |-> matching.selectedCandidate]],
           "processAllCandidates", matching.selectedCandidate, "none", "none")
    /\ UNCHANGED JobMatching_Others

\* processAllCandidates after one of its awaits; fetchCandidateMatches is
\* awaited only when a candidate was selected at the click.
JobMatching_processAllCandidates_step(s, o, data) ==
    LET p == s.all
    IN  CASE p.phase = "post" /\ o = "ok" /\ p.cand # "" ->
               ObserveArg([JobMatching_fetchCandidateMatches_start(s)
                              EXCEPT !.all.phase = "matches"],
                          "processAllCandidates", p.cand, o,
                          "Processed candidates")
          [] p.phase = "post" /\ o = "ok" /\ p.cand = "" ->
               ObserveArg([s EXCEPT !.all.phase = "stats"],
                          "processAllCandidates", p.cand, o,
                          "Processed candidates")
          [] p.phase = "post" /\ o # "ok" ->
               ObserveArg([SetState(s, [s EXCEPT !.processingAll = FALSE])
                              EXCEPT !.all = Idle],
                          "processAllCandidates", p.cand, o,
                          "Failed to process all candidates")
          [] p.phase = "matches" ->
               ObserveArg([JobMatching_fetchCandidateMatches_done(s, o, data)
                              EXCEPT !.all.phase = "stats"],
                          "fetchCandidateMatches", p.cand, o,
                          IF o = "ok" THEN "none" ELSE "Failed to load matches")
          [] OTHER ->
               LET t == JobMatching_fetchMatchingStats_done(s, o)
               IN  ObserveArg([SetState(t, [t EXCEPT !.processingAll = FALSE])
                                  EXCEPT !.all = Idle],
                              "fetchMatchingStats", "", o, "none")

JobMatching_processAllCandidates_settle ==
    /\ matching.all.phase # "idle"
    /\ \E o \in Outcomes,
          data \in IF matching.all.cand = "" THEN {"missing"}
                   ELSE SampleResponses(matching.all.cand) :
          matching' = JobMatching_processAllCandidates_step(matching, o, data)
    /\ UNCHANGED JobMatching_Others

\* The priority select.
JobMatching_setFilter ==
    /\ matching.mounted
    /\ \E f \in FilterValues \ {matching.filter} :
          matching' = ObserveArg([matching EXCEPT !.filter = f],
                                 "setFilter", "", "none", "none")
    /\ UNCHANGED JobMatching_Others

\* The search input.
JobMatching_setSearchTerm ==
    /\ matching.mounted
    /\ \E t \in SearchTerms \ {matching.searchTerm} :
          matching' = ObserveArg([matching EXCEPT !.searchTerm = t],
                                 "setSearchTerm", "", "none", "none")
    /\ UNCHANGED JobMatching_Others

JobMatching_Unmount ==
    /\ matching.mounted
    /\ matching' = ObserveArg([matching EXCEPT !.mounted = FALSE],
                              "unmount", "", "none", "none")
    /\ UNCHANGED JobMatching_Others

\* The requests of the page.
JobMatching_Next ==
    \/ JobMatching_fetchCandidates_settle
    \/ JobMatching_fetchMatchingStats_settle
    \/ JobMatching_handleCandidateChange
    \/ JobMatching_Refresh
    \/ JobMatching_fetchCandidateMatches_settle
    \/ JobMatching_processCandidateMatches
    \/ JobMatching_processCandidateMatches_settle
    \/ JobMatching_processAllCandidates
    \/ JobMatching_processAllCandidates_settle
    \/ JobMatching_Unmount

\* The page once a candidate's matches have been loaded, whatever they are.
JobMatching_Loaded(ms) ==
    [JobMatching_Init EXCEPT !.candidates = <<"c1", "c2">>,
                             !.selectedCandidate = "c1",
                             !.matches = ms, !.stats = "loaded",
                             !.candidatesReq = FALSE, !.statsReqs = 0,
                             !.op = "fetchCandidateMatches", !.arg = "c1",
                             !.outcome = "ok"]

(***************************************************************************)
(* JobsList                                                                *)
(***************************************************************************)
\* pagination.limit of useState
PageLimit == 20

\* data.total of a response; the values the source filter and the search
\* box take (the other four filters are handled like source).
Totals == {10, 30}
SourceFilters == {"", "indeed"}
Queries == {"", " ", "q"}

\* String.prototype.trim
trim(q) == IF q = " " THEN "" ELSE q

NoReq == [kind |-> "none", reset |-> FALSE, skip |-> 0, filters |-> "",
          query |-> ""]
StatsReq == [NoReq EXCEPT !.kind = "stats"]
NoSearch == [query |-> "", ok |-> FALSE]

\* The variables of the other pages.
JobsList_Others ==
    <<scraping, orch, subm, onb, testAI, matching, tailoring, letters, router,
      dash>>

\* The URL fetchJobs(resetPagination) requests, from the state its closure
\* sees.
JobsList_fetchJobs_request(s, resetPagination) ==
    [kind |-> "raw", reset |-> resetPagination,
     skip |-> IF resetPagination THEN 0 ELSE s.pagination.skip,
     filters |-> s.filters, query |-> ""]

\* The URL searchJobs requests: query and limit only.
JobsList_searchJobs_request(s) ==
    [kind |-> "search", reset |-> TRUE, skip |-> 0, filters |-> "",
     query |-> s.searchQuery]

\* The jobs a request's successful response carries.
JobsOf(r) == [r EXCEPT !.reset = FALSE]

RECURSIVE SeqToBag(_)
SeqToBag(q) ==
    IF q = <<>> THEN EmptyBag ELSE SetToBag({Head(q)}) (+) SeqToBag(Tail(q))

\* A variant of the sending that leaves out a request of which a copy is in
\* flight.  C3 tells it from the sending.
JobsList_send_deduplicated(s, reqs) ==
    LET fresh == SelectSeq(reqs, LAMBDA r : ~BagIn(r, s.inflight))
    IN  [s EXCEPT !.inflight = @ (+) SeqToBag(fresh),
                  !.loading = IF \E i \in 1..Len(reqs) : reqs[i].kind # "stats"
                              THEN TRUE ELSE @]

\* Requests leave: each is its own fetch(), added to those in flight;
\* fetchJobs and searchJobs call setLoading(true) first.
JobsList_send(s, reqs) ==
    [s EXCEPT !.inflight = @ (+) SeqToBag(reqs),
              !.loading = IF \E i \in 1..Len(reqs) : reqs[i].kind # "stats"
                          THEN TRUE ELSE @]

\* A variant of the effects without useEffect([pagination.skip]).  C8 tells
\* it from the effects.
JobsList_effects_filtersOnly(old, new, filtersSet) ==
    IF filtersSet THEN <<JobsList_fetchJobs_request(new, TRUE)>> ELSE <<>>

\* The effects that run after a render: useEffect([pagination.skip]) calls
\* fetchJobs() and fetchStats(), useEffect([filters]) calls fetchJobs(true);
\* both see the state of the new render.
JobsList_effects(old, new, filtersSet) ==
    (IF new.pagination.skip # old.pagination.skip
     THEN <<JobsList_fetchJobs_request(new, FALSE), StatsReq>> ELSE <<>>)
    \o (IF filtersSet THEN <<JobsList_fetchJobs_request(new, TRUE)>> ELSE <<>>)

JobsList_Init ==
    LET s == [mounted |-> TRUE, jobs |-> NoReq, loading |-> FALSE,
              stats |-> "null", searchQuery |-> "", filters |-> "",
              pagination |-> [skip |-> 0, limit |-> PageLimit, total |-> 0],
              inflight |-> EmptyBag, search |-> NoSearch]
    IN  \* both effects run after the first render
        JobsList_send(s, <<JobsList_fetchJobs_request(s, FALSE), StatsReq,
                           JobsList_fetchJobs_request(s, TRUE)>>)

JobsList_Unmounted ==
    [JobsList_Init EXCEPT !.mounted = FALSE, !.inflight = EmptyBag,
                          !.loading = FALSE]

JobsList_InFlight(s) == BagCardinality(s.inflight)

\* The job requests (not the statistics) in flight.
JobsList_JobRequests(s) == {r \in BagToSet(s.inflight) : r.kind # "stats"}

\* A user's step: the handler's state changes, the requests the handler
\* itself sends (with the state its closure saw), then the effects.
JobsList_act(old, new, direct, filtersSet) ==
    JobsList_send(new, direct \o JobsList_effects(old, new, filtersSet))

nextPage(pagination) ==
    LET newSkip == pagination.skip + pagination.limit
    IN  IF newSkip < pagination.total
        THEN [pagination EXCEPT !.skip = newSkip] ELSE pagination

Max(a, b) == IF a >= b THEN a ELSE b

prevPage(pagination) ==
    [pagination EXCEPT !.skip = Max(0, pagination.skip - pagination.limit)]

\* The pagination bar is rendered when total > limit.
JobsList_PaginationRendered(s) ==
    s.mounted /\ s.pagination.total > s.pagination.limit

\* Next: disabled={pagination.skip + pagination.limit >= pagination.total}
JobsList_nextPage ==
    /\ JobsList_PaginationRendered(jobsList)
    /\ ~(jobsList.pagination.skip + jobsList.pagination.limit
            >= jobsList.pagination.total)
    /\ JobsList_InFlight(jobsList) < MaxInFlight
    /\ jobsList' = JobsList_act(jobsList,
           [jobsList EXCEPT !.pagination = nextPage(@)],
           <<>>, FALSE)
    /\ UNCHANGED JobsList_Others

\* Previous: disabled={pagination.skip === 0}
JobsList_prevPage ==
    /\ JobsList_PaginationRendered(jobsList)
    /\ jobsList.pagination.skip # 0
    /\ JobsList_InFlight(jobsList) < MaxInFlight
    /\ jobsList' = JobsList_act(jobsList,
           [jobsList EXCEPT !.pagination = prevPage(@)],
           <<>>, FALSE)
    /\ UNCHANGED JobsList_Others

\* Typing in the search box.
JobsList_setSearchQuery ==
    /\ jobsList.mounted
    /\ \E q \in Queries \ {jobsList.searchQuery} :
          jobsList' = JobsList_act(jobsList,
              [jobsList EXCEPT !.searchQuery = q], <<>>, FALSE)
    /\ UNCHANGED JobsList_Others

\* The Search button and the Enter key.
JobsList_searchJobs ==
    /\ jobsList.mounted
    /\ JobsList_InFlight(jobsList) < MaxInFlight
    /\ LET blank == trim(jobsList.searchQuery) = ""
           direct == IF blank
                     THEN <<JobsList_fetchJobs_request(jobsList, TRUE)>>
                     ELSE <<JobsList_searchJobs_request(jobsList)>>
           \* history: the search that ran while no other job request was
           \* in flight
           h == IF ~blank /\ JobsList_JobRequests(jobsList) = {}
                THEN [NoSearch EXCEPT !.query = jobsList.searchQuery]
                ELSE NoSearch
       IN  jobsList' = JobsList_act(jobsList, [jobsList EXCEPT !.search = h],
                                    direct, FALSE)
    /\ UNCHANGED JobsList_Others

\* A filter input changes: setFilters makes a new object.
JobsList_handleFilterChange ==
    /\ jobsList.mounted
    /\ JobsList_InFlight(jobsList) < MaxInFlight
    /\ \E value \in SourceFilters \ {jobsList.filters} :
          jobsList' = JobsList_act(jobsList,
              [jobsList EXCEPT !.filters = value, !.search = NoSearch],
              <<>>, TRUE)
    /\ UNCHANGED JobsList_Others

JobsList_applyFilters ==
    /\ jobsList.mounted
    /\ JobsList_InFlight(jobsList) < MaxInFlight
    /\ jobsList' = JobsList_act(jobsList, [jobsList EXCEPT !.search = NoSearch],
           <<JobsList_fetchJobs_request(jobsList, TRUE)>>, FALSE)
    /\ UNCHANGED JobsList_Others

\* clearFilters: its fetchJobs(true) is the function of the render of the
\* click and reads the filters of before.
JobsList_clearFilters ==
    /\ jobsList.mounted
    /\ JobsList_InFlight(jobsList) < MaxInFlight
    /\ jobsList' = JobsList_act(jobsList,
           [jobsList EXCEPT !.filters = "", !.searchQuery = "",
                            !.pagination.skip = 0, !.search = NoSearch],
           <<JobsList_fetchJobs_request(jobsList, TRUE)>>, TRUE)
    /\ UNCHANGED JobsList_Others

\* fetchJobs and searchJobs after their awaits, for the request r; the
\* updates are batched into one render, whose effects then run.
JobsList_jobs_done(s, r, o, total) ==
    LET t == IF o = "ok"
             THEN [s EXCEPT !.jobs = JobsOf(r),
                            !.pagination.total = total,
                            !.pagination.skip = IF r.reset THEN 0 ELSE @,
                            !.loading = FALSE]
             ELSE [s EXCEPT !.loading = FALSE]
        u == SetState(s, t)
    IN  JobsList_send(u, JobsList_effects(s, u, FALSE))

\* fetchStats after its awaits.
JobsList_fetchStats_done(s, o) ==
    JobsList_send(SetState(s, [s EXCEPT !.stats = IF o = "ok" THEN "loaded"
                                                  ELSE @]), <<>>)

\* The request r in flight settles with outcome o and data.total = total.
JobsList_settles(r, o, total) ==
    /\ r \in BagToSet(jobsList.inflight)
    /\ LET s == [jobsList EXCEPT !.inflight = @ (-) SetToBag({r})]
           t == IF r.kind = "stats" THEN JobsList_fetchStats_done(s, o)
                ELSE JobsList_jobs_done(s, r, o, total)
           h == IF /\ r.kind = "search" /\ o = "ok" /\ s.mounted
                   /\ s.search.query = r.query
                THEN [s.search EXCEPT !.ok = TRUE]
                ELSE s.search
       IN  jobsList' = [t EXCEPT !.search = h]
    /\ UNCHANGED JobsList_Others

\* Any request in flight settles, in any order.
JobsList_settle ==
    \E r \in BagToSet(jobsList.inflight), o \in Outcomes, total \in Totals :
        JobsList_settles(r, o, total)

JobsList_Next ==
    \/ JobsList_nextPage
    \/ JobsList_prevPage
    \/ JobsList_setSearchQuery
    \/ JobsList_searchJobs
    \/ JobsList_handleFilterChange
    \/ JobsList_applyFilters
    \/ JobsList_clearFilters
    \/ JobsList_settle

(***************************************************************************)
(* ResumeTailoring                                                         *)
(***************************************************************************)
\* What the form holds: nothing, a candidate and a resume, or these with a
\* job and a job description.
TailoringForms == {"none", "resume", "all"}
TailoringTabs == {"tailor", "versions", "analytics"}

\* The variables of the other pages.
ResumeTailoring_Others ==
    <<scraping, orch, subm, onb, testAI, matching, jobsList, letters, router,
      dash>>

ResumeTailoring_Init ==
    [mounted |-> TRUE, form |-> "none", isLoading |-> FALSE,
     activeTab |-> "tailor", atsAnalysis |-> "null",
     req |-> "none", versionsReqs |-> 0, statsReqs |-> 1,
     op |-> "mount", outcome |-> "none", notice |-> "none"]

ResumeTailoring_Unmounted ==
    [ResumeTailoring_Init EXCEPT !.mounted = FALSE, !.statsReqs = 0,
                                 !.op = "none"]

\* The three buttons of the tailor tab, all disabled={isLoading}.
ResumeTailoring_Offered(s) ==
    /\ s.mounted /\ s.activeTab = "tailor" /\ ~s.isLoading
    /\ s.versionsReqs + s.statsReqs < MaxRefreshes

\* A handler up to its await: the validation toast, or the request.
ResumeTailoring_start(s, op, valid, message) ==
    IF valid
    THEN Observe([s EXCEPT !.isLoading = TRUE, !.req = op], op, "none", "none")
    ELSE Observe(s, op, "none", message)

\* handleTailorResume and handleGenerateVariants after their await.
ResumeTailoring_generate_done(s, op, o) ==
    LET t == IF o = "ok"
             THEN [SetState(s, [s EXCEPT !.activeTab = "versions"])
                      EXCEPT !.versionsReqs = @ + 1, !.statsReqs = @ + 1]
             ELSE s
        u == SetState(t, [t EXCEPT !.isLoading = FALSE])
    IN  Observe([u EXCEPT !.req = "none"], op, o,
                CASE o = "ok" -> "success"
                  [] op = "handleTailorResume" -> "Failed to tailor resume"
                  [] OTHER -> "Failed to generate variants")

\* handleTestATSScoring after its await.
ResumeTailoring_handleTestATSScoring_done(s, o) ==
    LET t == IF o = "ok" THEN SetState(s, [s EXCEPT !.atsAnalysis = "scored"])
             ELSE s
        u == SetState(t, [t EXCEPT !.isLoading = FALSE])
    IN  Observe([u EXCEPT !.req = "none"], "handleTestATSScoring", o,
                IF o = "ok" THEN "success" ELSE "Failed to test ATS scoring")

\* The selects and the text area of the form; useEffect([selectedCandidate])
\* calls fetchResumeVersions when a candidate becomes selected.
ResumeTailoring_fill ==
    /\ tailoring.mounted
    /\ tailoring.versionsReqs < MaxInFlight
    /\ \E f \in TailoringForms \ {tailoring.form} :
          tailoring' = Observe(
              [tailoring EXCEPT !.form = f,
                                !.versionsReqs = IF tailoring.form = "none"
                                                 THEN @ + 1 ELSE @],
              "fill", "none", "none")
    /\ UNCHANGED ResumeTailoring_Others

ResumeTailoring_setActiveTab ==
    /\ tailoring.mounted
    /\ \E tab \in TailoringTabs \ {tailoring.activeTab} :
          tailoring' = Observe([tailoring EXCEPT !.activeTab = tab],
                               "setActiveTab", "none", "none")
    /\ UNCHANGED ResumeTailoring_Others

ResumeTailoring_handleTailorResume ==
    /\ ResumeTailoring_Offered(tailoring)
    /\ tailoring' = ResumeTailoring_start(tailoring, "handleTailorResume",
                        tailoring.form = "all",
                        "Please fill in all required fields")
    /\ UNCHANGED ResumeTailoring_Others

ResumeTailoring_handleGenerateVariants ==
    /\ ResumeTailoring_Offered(tailoring)
    /\ tailoring' = ResumeTailoring_start(tailoring, "handleGenerateVariants",
                        tailoring.form # "none",
                        "Please select a candidate and resume")
    /\ UNCHANGED ResumeTailoring_Others

ResumeTailoring_handleTestATSScoring ==
    /\ ResumeTailoring_Offered(tailoring)
    /\ tailoring' = ResumeTailoring_start(tailoring, "handleTestATSScoring",
                                          TRUE, "none")
    /\ UNCHANGED ResumeTailoring_Others

ResumeTailoring_settle ==
    /\ tailoring.req # "none"
    /\ \E o \in Outcomes :
          tailoring' = IF tailoring.req = "handleTestATSScoring"
                       THEN ResumeTailoring_handleTestATSScoring_done(tailoring, o)
                       ELSE ResumeTailoring_generate_done(tailoring,
                                                          tailoring.req, o)
    /\ UNCHANGED ResumeTailoring_Others

\* fetchResumeVersions after its await: a toast when the request throws.
ResumeTailoring_fetchResumeVersions_settle ==
    /\ tailoring.versionsReqs > 0
    /\ \E o \in Outcomes :
          tailoring' = Observe([tailoring EXCEPT !.versionsReqs = @ - 1],
                               "fetchResumeVersions", o,
                               IF o = "throw"
                               THEN "Failed to fetch resume versions"
                               ELSE "none")
    /\ UNCHANGED ResumeTailoring_Others

\* fetchTailoringStats after its await.
ResumeTailoring_fetchTailoringStats_settle ==
    /\ tailoring.statsReqs > 0
    /\ \E o \in Outcomes :
          tailoring' = Observe([tailoring EXCEPT !.statsReqs = @ - 1],
                               "fetchTailoringStats", o, "none")
    /\ UNCHANGED ResumeTailoring_Others

ResumeTailoring_Unmount ==
    /\ tailoring.mounted
    /\ tailoring' = Observe([tailoring EXCEPT !.mounted = FALSE], "unmount",
                            "none", "none")
    /\ UNCHANGED ResumeTailoring_Others

ResumeTailoring_Next ==
    \/ ResumeTailoring_fill
    \/ ResumeTailoring_setActiveTab
    \/ ResumeTailoring_handleTailorResume
    \/ ResumeTailoring_handleGenerateVariants
    \/ ResumeTailoring_handleTestATSScoring
    \/ ResumeTailoring_settle
    \/ ResumeTailoring_fetchResumeVersions_settle
    \/ ResumeTailoring_fetchTailoringStats_settle
    \/ ResumeTailoring_Unmount

(***************************************************************************)
(* CoverLetterManagement                                                   *)
(***************************************************************************)
LetterTabs == {"generate", "manage", "test"}

\* The variables of the other pages.
CoverLetterManagement_Others ==
    <<scraping, orch, subm, onb, testAI, matching, jobsList, tailoring, router,
      dash>>

\* formFilled: candidate_id, job_description and company_name are all set.
CoverLetterManagement_Init ==
    [mounted |-> TRUE, formFilled |-> FALSE, loading |-> FALSE,
     activeTab |-> "generate", req |-> "none",
     lettersReqs |-> 0, statsReqs |-> 1,
     op |-> "mount", outcome |-> "none", notice |-> "none"]

CoverLetterManagement_Unmounted ==
    [CoverLetterManagement_Init EXCEPT !.mounted = FALSE, !.statsReqs = 0,
                                       !.op = "none"]

\* A button of the given tab, disabled={loading}.
CoverLetterManagement_Offered(s, tab) ==
    /\ s.mounted /\ s.activeTab = tab /\ ~s.loading
    /\ s.lettersReqs + s.statsReqs < MaxRefreshes

\* A handler up to its await: the validation alert, or the request.
CoverLetterManagement_start(s, op, valid) ==
    IF valid
    THEN Observe([s EXCEPT !.loading = TRUE, !.req = op], op, "none", "none")
    ELSE Observe(s, op, "none", "Please fill in all required fields")

\* A handler after its await; generateCoverLetter empties the form on
\* success, testCoverLetterGeneration reloads only the statistics.
CoverLetterManagement_done(s, op, o) ==
    LET t == IF o = "ok"
             THEN [SetState(s, [s EXCEPT !.formFilled =
                                   IF op = "generateCoverLetter" THEN FALSE
                                   ELSE @])
                      EXCEPT !.lettersReqs =
                                 IF op = "testCoverLetterGeneration" THEN @
                                 ELSE @ + 1,
                             !.statsReqs = @ + 1]
             ELSE s
        u == SetState(t, [t EXCEPT !.loading = FALSE])
    IN  Observe([u EXCEPT !.req = "none"], op, o,
                CASE o = "ok" -> "success"
                  [] o = "fail" -> "failed"
                  [] OTHER -> "Error")

CoverLetterManagement_setFormData ==
    /\ letters.mounted
    /\ letters.activeTab = "generate"
    /\ letters' = Observe([letters EXCEPT !.formFilled = ~@], "setFormData",
                          "none", "none")
    /\ UNCHANGED CoverLetterManagement_Others

CoverLetterManagement_setActiveTab ==
    /\ letters.mounted
    /\ \E tab \in LetterTabs \ {letters.activeTab} :
          letters' = Observe([letters EXCEPT !.activeTab = tab],
                             "setActiveTab", "none", "none")
    /\ UNCHANGED CoverLetterManagement_Others

CoverLetterManagement_generateCoverLetter ==
    /\ CoverLetterManagement_Offered(letters, "generate")
    /\ letters' = CoverLetterManagement_start(letters, "generateCoverLetter",
                                              letters.formFilled)
    /\ UNCHANGED CoverLetterManagement_Others

CoverLetterManagement_generateMultipleVersions ==
    /\ CoverLetterManagement_Offered(letters, "generate")
    /\ letters' = CoverLetterManagement_start(letters,
                      "generateMultipleVersions", letters.formFilled)
    /\ UNCHANGED CoverLetterManagement_Others

CoverLetterManagement_testCoverLetterGeneration ==
    /\ CoverLetterManagement_Offered(letters, "test")
    /\ letters' = CoverLetterManagement_start(letters,
                      "testCoverLetterGeneration", TRUE)
    /\ UNCHANGED CoverLetterManagement_Others

CoverLetterManagement_settle ==
    /\ letters.req # "none"
    /\ \E o \in Outcomes :
          letters' = CoverLetterManagement_done(letters, letters.req, o)
    /\ UNCHANGED CoverLetterManagement_Others

\* fetchCandidateCoverLetters after its await.
CoverLetterManagement_fetchCandidateCoverLetters_settle ==
    /\ letters.lettersReqs > 0
    /\ \E o \in Outcomes :
          letters' = Observe([letters EXCEPT !.lettersReqs = @ - 1],
                             "fetchCandidateCoverLetters", o, "none")
    /\ UNCHANGED CoverLetterManagement_Others

\* fetchCoverLetterStats after its await.
CoverLetterManagement_fetchCoverLetterStats_settle ==
    /\ letters.statsReqs > 0
    /\ \E o \in Outcomes :
          letters' = Observe([letters EXCEPT !.statsReqs = @ - 1],
                             "fetchCoverLetterStats", o, "none")
    /\ UNCHANGED CoverLetterManagement_Others

CoverLetterManagement_Unmount ==
    /\ letters.mounted
    /\ letters' = Observe([letters EXCEPT !.mounted = FALSE], "unmount",
                          "none", "none")
    /\ UNCHANGED CoverLetterManagement_Others

CoverLetterManagement_Next ==
    \/ CoverLetterManagement_setFormData
    \/ CoverLetterManagement_setActiveTab
    \/ CoverLetterManagement_generateCoverLetter
    \/ CoverLetterManagement_generateMultipleVersions
    \/ CoverLetterManagement_testCoverLetterGeneration
    \/ CoverLetterManagement_settle
    \/ CoverLetterManagement_fetchCandidateCoverLetters_settle
    \/ CoverLetterManagement_fetchCoverLetterStats_settle
    \/ CoverLetterManagement_Unmount

(***************************************************************************)
(* Dashboard                                                               *)
(***************************************************************************)
\* What GET /api/dashboard/stats and GET /api/health may answer.
DashboardData == {"d1", "d2"}
HealthData == {"healthy", "degraded"}

\* The four requests of fetchDashboardData, in the order of their awaits.
DashboardRequests ==
    <<"dashboard/stats", "scraping/status", "resume-tailoring/stats",
      "cover-letters/stats/overview">>

\* The values fetchDashboardData has collected so far; "defaults" is the
\* zero-valued object of a section.
NoStats ==
    [dashboard |-> "none", scraping |-> "none", tailoring |-> "none",
     coverLetters |-> "none"]

\* useState: the zero-valued stats, without the two later sections.
InitialStats ==
    [dashboard |-> "initial", scraping |-> "initial", tailoring |-> "absent",
     coverLetters |-> "absent"]

Dashboard_Others ==
    <<scraping, orch, subm, onb, testAI, matching, jobsList, tailoring, letters,
      router>>

\* The mount effect has called fetchDashboardData() and checkSystemHealth():
\* the first request of the sequence and the health request are in flight.
Dashboard_Init ==
    [mounted |-> TRUE, stats |-> InitialStats, loading |-> TRUE,
     systemStatus |-> "null",
     step |-> 1, acc |-> NoStats, healthReq |-> TRUE,
     op |-> "mount", outcome |-> "none", notice |-> "none"]

Dashboard_Unmounted ==
    [Dashboard_Init EXCEPT !.mounted = FALSE, !.step = 0,
                           !.healthReq = FALSE, !.op = "none"]

\* The catch block and the finally block of fetchDashboardData.
Dashboard_fetchDashboardData_failed(s, o) ==
    Observe([SetState(s, [s EXCEPT !.loading = FALSE])
                EXCEPT !.step = 0, !.acc = NoStats],
            DashboardRequests[s.step], o, "Failed to load dashboard data")

\* A variant of fetchDashboardData without the inner try/catch around the
\* resume tailoring request.  C22 tells it from fetchDashboardData.
Dashboard_fetchDashboardData_strict(s, o, success, data) ==
    LET section == IF o = "ok" /\ success THEN "stats" ELSE "defaults"
        name == DashboardRequests[s.step]
    IN  CASE s.step = 1 /\ o = "ok" ->
               Observe([s EXCEPT !.step = 2, !.acc.dashboard = data],
                       name, o, "none")
          [] s.step = 2 /\ o = "ok" ->
               Observe([s EXCEPT !.step = 3, !.acc.scraping = section],
                       name, o, "none")
          [] s.step = 3 /\ o = "ok" ->
               Observe([s EXCEPT !.step = 4, !.acc.tailoring = section],
                       name, o, "none")
          [] s.step = 4 ->
               LET combinedStats == [s.acc EXCEPT !.coverLetters = section]
               IN  Observe([SetState(s, [s EXCEPT !.stats = combinedStats,
                                                  !.loading = FALSE])
                               EXCEPT !.step = 0, !.acc = NoStats],
                           name, o, "none")
          [] OTHER -> Dashboard_fetchDashboardData_failed(s, o)

\* fetchDashboardData after one of its four awaits.  axios rejects on a
\* non-2xx response and on a network error; success is data.success of a
\* 2xx response.  The first two requests are awaited in the outer try block,
\* the last two each in a try/catch of its own.
Dashboard_fetchDashboardData_step(s, o, success, data) ==
    LET section == IF o = "ok" /\ success THEN "stats" ELSE "defaults"
        name == DashboardRequests[s.step]
    IN  CASE s.step = 1 /\ o = "ok" ->
               Observe([s EXCEPT !.step = 2, !.acc.dashboard = data],
                       name, o, "none")
          [] s.step = 2 /\ o = "ok" ->
               Observe([s EXCEPT !.step = 3, !.acc.scraping = section],
                       name, o, "none")
          [] s.step = 3 ->
               Observe([s EXCEPT !.step = 4, !.acc.tailoring = section],
                       name, o, "none")
          [] s.step = 4 ->
               LET combinedStats == [s.acc EXCEPT !.coverLetters = section]
               IN  Observe([SetState(s, [s EXCEPT !.stats = combinedStats,
                                                  !.loading = FALSE])
                               EXCEPT !.step = 0, !.acc = NoStats],
                           name, o, "none")
          [] OTHER -> Dashboard_fetchDashboardData_failed(s, o)

\* The request of fetchDashboardData that is in flight settles.
Dashboard_fetchDashboardData_settle ==
    /\ dash.step > 0
    /\ \E o \in Outcomes, success \in BOOLEAN, data \in DashboardData :
          dash' = Dashboard_fetchDashboardData_step(dash, o, success, data)
    /\ UNCHANGED Dashboard_Others

\* checkSystemHealth after its await.
Dashboard_checkSystemHealth_settle ==
    /\ dash.healthReq
    /\ \E o \in Outcomes, data \in HealthData :
          LET t == [dash EXCEPT !.systemStatus = IF o = "ok" THEN data
                                                 ELSE "unhealthy"]
          IN  dash' = Observe([SetState(dash, t) EXCEPT !.healthReq = FALSE],
                              "health", o, "none")
    /\ UNCHANGED Dashboard_Others

\* The user leaves the page through the sidebar.
Dashboard_Unmount ==
    /\ dash.mounted
    /\ dash' = Observe([dash EXCEPT !.mounted = FALSE],
                       "unmount", "none", "none")
    /\ UNCHANGED Dashboard_Others

Dashboard_Next ==
    \/ Dashboard_fetchDashboardData_settle
    \/ Dashboard_checkSystemHealth_settle
    \/ Dashboard_Unmount

(***************************************************************************)
(* App and Navigation: the sidebar links and the routes                    *)
(***************************************************************************)
\* A pathname is the sequence of its segments: "/" is <<>>,
\* "/candidates/new" is <<"candidates", "new">>.
\* Bound of the model: entries of the browser history.
MaxHistory == 3

\* The path of every item of navItems, in the order of the array.
navItems ==
    << <<>>, <<"mass-scale">>, <<"automation">>, <<"candidates", "new">>,
       <<"scraping">>, <<"matching">>, <<"resume-tailoring">>,
       <<"cover-letters">>, <<"application-submission">>,
       <<"linkedin-automation">>, <<"feedback-analytics">>, <<"jobs">>,
       <<"test-ai">> >>

\* A segment of a route path that is a parameter.
IsParam(segment) == segment = ":id"

\* The <Route> children of <Routes>, in the order of the file.
routes ==
    << [path |-> <<>>, element |-> "Dashboard"],
       [path |-> <<"candidates", "new">>, element |-> "CandidateOnboarding"],
       [path |-> <<"candidates", ":id">>, element |-> "CandidateProfile"],
       [path |-> <<"scraping">>, element |-> "JobScraping"],
       [path |-> <<"jobs">>, element |-> "JobsList"],
       [path |-> <<"matching">>, element |-> "JobMatching"],
       [path |-> <<"resume-tailoring">>, element |-> "ResumeTailoring"],
       [path |-> <<"test-ai">>, element |-> "TestAI"] >>

\* react-router: a route path matches a pathname of as many segments, each
\* equal to the route's segment unless that one is a parameter.
matchPath(pattern, pathname) ==
    /\ Len(pattern) = Len(pathname)
    /\ \A i \in 1..Len(pattern) :
          IsParam(pattern[i]) \/ pattern[i] = pathname[i]

\* react-router ranks the routes that match: more static segments first,
\* then the order of the children.
StaticSegments(pattern) ==
    Cardinality({i \in 1..Len(pattern) : ~IsParam(pattern[i])})

Matching(pathname) ==
    {i \in 1..Len(routes) : matchPath(routes[i].path, pathname)}

\* What <Routes> renders in <main> for a pathname: the element of the best
\* match, or nothing.
Routes(pathname) ==
    IF Matching(pathname) = {} THEN "nothing"
    ELSE LET best == CHOOSE i \in Matching(pathname) :
                        \A j \in Matching(pathname) :
                            \/ StaticSegments(routes[i].path)
                                   > StaticSegments(routes[j].path)
                            \/ /\ StaticSegments(routes[i].path)
                                      = StaticSegments(routes[j].path)
                               /\ i <= j
         IN routes[best].element

\* The browser opens the application at "/".
Router_Init ==
    [entries |-> << <<>> >>, clicked |-> FALSE]

location(r) == r.entries[Len(r.entries)]

Router_Others ==
    <<scraping, orch, subm, onb, testAI, matching, jobsList, tailoring, letters,
      dash>>

\* A click on the <Link> of a navItems entry: the history gets the item's
\* path as its new location.
Navigation_Link ==
    /\ Len(router.entries) < MaxHistory
    /\ \E n \in 1..Len(navItems) :
          router' = [entries |-> Append(router.entries, navItems[n]),
                     clicked |-> TRUE]
    /\ UNCHANGED Router_Others

\* The browser's back button.
Router_back ==
    /\ Len(router.entries) > 1
    /\ router' = [entries |-> SubSeq(router.entries, 1,
                                     Len(router.entries) - 1),
                  clicked |-> FALSE]
    /\ UNCHANGED Router_Others

Router_Next ==
    \/ Navigation_Link
    \/ Router_back

(***************************************************************************)
(* Specifications.  The router mounts one page component at a time, so a   *)
(* specification starts with one page mounted and the others never         *)
(* mounted, and its next-state relation is that of the pages it covers.    *)
(***************************************************************************)
Only(page) ==
    /\ scraping = IF page = "JobScraping" THEN JobScraping_Init
                  ELSE JobScraping_Unmounted
    /\ orch = IF page = "AutomationOrchestrator" THEN AutomationOrchestrator_Init
              ELSE AutomationOrchestrator_Unmounted
    /\ subm = IF page = "ApplicationSubmission" THEN ApplicationSubmission_Init
              ELSE ApplicationSubmission_Unmounted
    /\ onb = IF page = "CandidateOnboarding" THEN CandidateOnboarding_Init
             ELSE CandidateOnboarding_Unmounted
    /\ testAI = IF page = "TestAI" THEN TestAI_Init
        ELSE TestAI_Unmounted
    /\ matching = IF page = "JobMatching" THEN JobMatching_Init
        ELSE JobMatching_Unmounted
    /\ jobsList = IF page = "JobsList" THEN JobsList_Init
        ELSE JobsList_Unmounted
    /\ tailoring = IF page = "ResumeTailoring" THEN ResumeTailoring_Init
        ELSE ResumeTailoring_Unmounted
    /\ letters = IF page = "CoverLetterManagement" THEN CoverLetterManagement_Init
        ELSE CoverLetterManagement_Unmounted
    /\ router = Router_Init
    /\ dash = IF page = "Dashboard" THEN Dashboard_Init
              ELSE Dashboard_Unmounted

\* The three pages whose requests C1 names.
SpecNotices ==
    /\ \E page \in {"JobScraping", "AutomationOrchestrator",
                    "ApplicationSubmission"} : Only(page)
    /\ [][JobScraping_Next \/ AutomationOrchestrator_Next
             \/ ApplicationSubmission_Next]_vars

\* The two pages that poll.
SpecPolling ==
    /\ \E page \in {"JobScraping", "AutomationOrchestrator"} : Only(page)
    /\ [][JobScraping_Next \/ AutomationOrchestrator_Next]_vars

SpecOnboarding ==
    /\ Only("CandidateOnboarding")
    /\ [][CandidateOnboarding_Next]_vars

SpecTestAI ==
    /\ Only("TestAI")
    /\ [][TestAI_Next]_vars

\* ApplicationSubmission with the submission method and the batch size left
\* at their initial values, which no busy flag depends on.
ApplicationSubmission_NextDefaultConfig ==
    \/ ApplicationSubmission_mountLoad_settle
    \/ ApplicationSubmission_fetchApplicationStats_settle
    \/ ApplicationSubmission_fetchRecentApplications_settle
    \/ ApplicationSubmission_toggleCandidate
    \/ ApplicationSubmission_handleAutoSubmit
    \/ ApplicationSubmission_handleTestSubmission
    \/ ApplicationSubmission_handleBulkSubmit
    \/ ApplicationSubmission_handleAutoSubmit_settle
    \/ ApplicationSubmission_handleTestSubmission_settle
    \/ ApplicationSubmission_handleBulkSubmit_settle
    \/ ApplicationSubmission_Unmount

\* The pages with a busy flag; every request in flight settles in the end
\* (a response, an error response or a network error), which is weak
\* fairness of the steps that settle one.
BusyPages ==
    {"JobScraping", "AutomationOrchestrator", "ApplicationSubmission",
     "JobMatching", "CandidateOnboarding", "ResumeTailoring",
     "CoverLetterManagement"}

SpecBusy ==
    /\ \E page \in BusyPages : Only(page)
    /\ [][JobScraping_Next \/ AutomationOrchestrator_Next
             \/ ApplicationSubmission_NextDefaultConfig \/ JobMatching_Next
             \/ CandidateOnboarding_Next \/ ResumeTailoring_Next
             \/ CoverLetterManagement_Next]_vars
    /\ WF_vars(JobScraping_fetchScrapingStatus_settle)
    /\ WF_vars(JobScraping_startManualScraping_settle)
    /\ WF_vars(JobScraping_controlScheduler_settle)
    /\ WF_vars(AutomationOrchestrator_startAutonomousSystem_settle)
    /\ WF_vars(AutomationOrchestrator_stopAutonomousSystem_settle)
    /\ WF_vars(ApplicationSubmission_handleAutoSubmit_settle)
    /\ WF_vars(ApplicationSubmission_handleTestSubmission_settle)
    /\ WF_vars(ApplicationSubmission_handleBulkSubmit_settle)
    /\ WF_vars(JobMatching_processCandidateMatches_settle)
    /\ WF_vars(JobMatching_processAllCandidates_settle)
    /\ WF_vars(CandidateOnboarding_handleSubmit_settle)
    /\ WF_vars(CandidateOnboarding_uploadResume_settle)
    /\ WF_vars(ResumeTailoring_settle)
    /\ WF_vars(CoverLetterManagement_settle)

\* The two pages whose requests can overtake one another.
SpecRequests ==
    /\ \E page \in {"JobsList", "JobMatching"} : Only(page)
    /\ [][JobsList_Next \/ JobMatching_Next]_vars

SpecJobsList ==
    /\ Only("JobsList")
    /\ [][JobsList_Next]_vars

\* The filter and the search of JobMatching over every list of matches.
SpecMatchFilter ==
    /\ \E ms \in ListsOver(MatchesOf("c1"), MaxMatches) :
          /\ scraping = JobScraping_Unmounted
          /\ orch = AutomationOrchestrator_Unmounted
          /\ subm = ApplicationSubmission_Unmounted
          /\ onb = CandidateOnboarding_Unmounted
          /\ testAI = TestAI_Unmounted
          /\ matching = JobMatching_Loaded(ms)
          /\ jobsList = JobsList_Unmounted
          /\ tailoring = ResumeTailoring_Unmounted
          /\ letters = CoverLetterManagement_Unmounted
          /\ router = Router_Init
          /\ dash = Dashboard_Unmounted
    /\ [][JobMatching_setFilter \/ JobMatching_setSearchTerm]_vars

SpecOrchestrator ==
    /\ Only("AutomationOrchestrator")
    /\ [][AutomationOrchestrator_Next]_vars

SpecSubmission ==
    /\ Only("ApplicationSubmission")
    /\ [][ApplicationSubmission_Next]_vars

\* JobsList at rest with the source filter set: the list on display is the
\* response to the request for the page at skip with that filter.
JobsList_Filtered(skip, total, query, stats) ==
    LET s == [JobsList_Init EXCEPT !.filters = "indeed",
                                   !.searchQuery = query, !.stats = stats,
                                   !.pagination.skip = skip,
                                   !.pagination.total = total,
                                   !.loading = FALSE, !.inflight = EmptyBag]
    IN  [s EXCEPT !.jobs = JobsOf(JobsList_fetchJobs_request(s, FALSE))]

\* Clear Filters clicked on a filtered list, every jobs response successful,
\* in any order of arrival.
SpecClearFilters ==
    /\ \E skip \in {0, PageLimit}, total \in Totals, query \in Queries,
          stats \in {"null", "loaded"} :
          /\ skip < total
          /\ scraping = JobScraping_Unmounted
          /\ orch = AutomationOrchestrator_Unmounted
          /\ subm = ApplicationSubmission_Unmounted
          /\ onb = CandidateOnboarding_Unmounted
          /\ testAI = TestAI_Unmounted
          /\ matching = JobMatching_Unmounted
          /\ jobsList = JobsList_Filtered(skip, total, query, stats)
          /\ tailoring = ResumeTailoring_Unmounted
          /\ letters = CoverLetterManagement_Unmounted
          /\ router = Router_Init
          /\ dash = Dashboard_Unmounted
    /\ [][\/ (jobsList.filters # "" /\ JobsList_clearFilters)
          \/ \E r \in BagToSet(jobsList.inflight), total \in Totals :
                \E o \in IF r.kind = "stats" THEN Outcomes ELSE {"ok"} :
                   JobsList_settles(r, o, total)]_vars

\* JobMatching; what the user does is up to the user, and every request in
\* flight settles in the end, which is weak fairness of the steps that
\* settle one.
SpecMatching ==
    /\ Only("JobMatching")
    /\ [][JobMatching_Next]_vars
    /\ WF_vars(JobMatching_fetchCandidates_settle)
    /\ WF_vars(JobMatching_fetchMatchingStats_settle)
    /\ WF_vars(JobMatching_fetchCandidateMatches_settle)
    /\ WF_vars(JobMatching_processCandidateMatches_settle)
    /\ WF_vars(JobMatching_processAllCandidates_settle)

SpecScraping ==
    /\ Only("JobScraping")
    /\ [][JobScraping_Next]_vars

SpecDashboard ==
    /\ Only("Dashboard")
    /\ [][Dashboard_Next]_vars

\* The sidebar and the routes, with no page's requests.
SpecRouter ==
    /\ Only("none")
    /\ [][Router_Next]_vars

(***************************************************************************)
(* C1: failed requests and what the user is shown                          *)
(***************************************************************************)
\* The alerts and toasts that report a failure.
FailureNotices ==
    {"Failed to start scraping", "Failed to restart scheduler",
     "Failed to start autonomous system", "Error starting autonomous system",
     "Failed to stop autonomous system", "Error stopping autonomous system",
     "Failed to start auto-submission", "Error starting auto-submission",
     "Test submission failed", "Error testing submission",
     "Error with bulk submission"}

\* The handlers whose catch and else branches call alert() or toast.error().
SurfacingOps ==
    {"startManualScraping", "controlScheduler",
     "startAutonomousSystem", "stopAutonomousSystem",
     "handleAutoSubmit", "handleTestSubmission"}

\* The step of s settled a request with a failure.
FailedStep(s) == s.outcome \in Failures

Busy(s, flag) == s.mounted /\ flag

\* Each flag is idle again and again: [](busy => <>idle), since []<>idle says
\* the same.
C2_Scraping ==
    /\ []<>~Busy(scraping, scraping.loading)
    /\ []<>~Busy(scraping, scraping.manualScraping)
    /\ []<>~Busy(scraping, scraping.refreshing)

C2_Others ==
    /\ []<>~Busy(orch, orch.isLoading)
    /\ []<>~Busy(subm, subm.submissionStatus # "idle")
    /\ []<>~Busy(matching, matching.processingMatches)
    /\ []<>~Busy(matching, matching.processingAll)
    /\ []<>~Busy(onb, onb.loading)
    /\ []<>~Busy(tailoring, tailoring.isLoading)
    /\ []<>~Busy(letters, letters.loading)

\* C2: whenever a busy flag of a mounted page holds its busy value
\* (JobScraping loading, manualScraping, refreshing; AutomationOrchestrator
\* isLoading; ApplicationSubmission submissionStatus; JobMatching
\* processingMatches, processingAll; CandidateOnboarding loading;
\* ResumeTailoring isLoading; CoverLetterManagement loading), the flag is
\* back at its idle value later on, whether the requests of its action
\* succeed, fail or throw, unless the page is unmounted first.
C2_FlagsReturnToIdle == C2_Scraping /\ C2_Others

\* The request of startManualScraping threw and its button is enabled again.
C2_Witness ==
    /\ scraping.mounted
    /\ scraping.op = "startManualScraping"
    /\ scraping.outcome = "throw"
    /\ ~scraping.manualScraping

(***************************************************************************)
(* C3: no cancellation, no deduplication                                   *)
(***************************************************************************)
\* The requests of JobsList that the step settled: those of which fewer are
\* in flight after it.
Settled ==
    {r \in BagToSet(jobsList.inflight) :
        CopiesIn(r, jobsList'.inflight) < CopiesIn(r, jobsList.inflight)}

\* GET /api/jobs/raw as fetchJobs(reset) asks for it.
Raw(reset, skip, filters) ==
    [kind |-> "raw", reset |-> reset, skip |-> skip, filters |-> filters,
     query |-> ""]

\* On mount JobsList asks for the list twice (once per effect) and JobMatching
\* for the candidates and the statistics.
C3_Mount ==
    /\ Only("JobsList") =>
          jobsList.inflight = SeqToBag(<<Raw(FALSE, 0, ""), Raw(TRUE, 0, ""),
                                         StatsReq>>)
    /\ Only("JobMatching") =>
          /\ matching.candidatesReq /\ matching.statsReqs = 1
          /\ \A c \in Candidates : matching.matchReqs[c] = 0

C3_JobsListSteps ==
    LET old == jobsList.inflight
        new == jobsList'.inflight
    IN  /\ JobsList_handleFilterChange =>
              new = old (+) SetToBag({Raw(TRUE, 0, jobsList'.filters)})
        /\ JobsList_applyFilters =>
              new = old (+) SetToBag({Raw(TRUE, 0, jobsList.filters)})
        /\ jobsList.mounted
              /\ jobsList'.pagination.skip # jobsList.pagination.skip =>
              LET get == Raw(FALSE, jobsList'.pagination.skip, jobsList'.filters)
              IN  CopiesIn(get, new) = CopiesIn(get, old) + 1
        /\ \A r \in Settled, total \in Totals :
              jobsList.mounted /\ r.kind # "stats"
                               /\ JobsList_settles(r, "ok", total) =>
                 /\ jobsList'.jobs = JobsOf(r)
                 /\ jobsList'.pagination.total = total

C3_JobMatchingSteps ==
    LET c == matching'.arg
    IN  /\ matching' # matching
              /\ matching'.op \in {"handleCandidateChange", "refresh"}
              /\ c # "" =>
              matching'.matchReqs[c] = matching.matchReqs[c] + 1
        /\ matching' # matching /\ matching.mounted
              /\ matching'.op = "fetchCandidateMatches"
              /\ matching'.outcome = "ok" =>
              \E data \in SampleResponses(c) :
                  matching'.matches = IF data = "missing" THEN <<>> ELSE data

\* C3: every trigger sends its own request, added to those in flight even
\* when an identical one is among them: JobsList two GET /api/jobs/raw on
\* mount, one per change of the filters, one per click on Apply and one per
\* change of pagination.skip; JobMatching one GET of the matches per
\* selection of a candidate and per Refresh.  Every successful response is
\* written into the state when it arrives, whatever was requested after it:
\* the jobs and the total of JobsList, and the matches of JobMatching even
\* when they belong to a candidate no longer selected.
C3_NoCancellationNoDeduplication ==
    C3_Mount /\ [][C3_JobsListSteps /\ C3_JobMatchingSteps]_vars

\* The matches of the candidate selected before are on display.
C3_Witness ==
    /\ matching.mounted
    /\ matching.op = "fetchCandidateMatches"
    /\ matching.outcome = "ok"
    /\ matching.selectedCandidate \notin {"", matching.arg}
    /\ matching.matches = <<SampleMatch(matching.arg)>>

(***************************************************************************)
(* C4: polling                                                             *)
(***************************************************************************)
\* The step is a tick of the interval of JobScraping.
ScrapingTickStep == scraping' # scraping /\ scraping'.op = "tick"
OrchTickStep == orch' # orch /\ orch'.op = "tick"

C4_Steps ==
    /\ ScrapingTickStep =>
          /\ scraping.mounted
          /\ scraping'.statusReqs = scraping.statusReqs + 1
    /\ OrchTickStep =>
          /\ orch.mounted
          /\ orch'.statusReqs = orch.statusReqs + 1
          /\ orch'.statsReqs = orch.statsReqs + 1

C4_States ==
    /\ scraping.op = "mount" => scraping.statusReqs = 1
    /\ orch.op = "mount" => orch.statusReqs = 1 /\ orch.statsReqs = 1
    /\ scraping.interval <=> scraping.mounted
    /\ orch.interval <=> orch.mounted

\* C4: each polling page starts its status requests once on mount and once
\* per tick of its interval, a tick adds its request to those already in
\* flight, and the interval runs exactly as long as the page is mounted, so
\* no tick starts a request after the unmount.
C4_PollingWithoutOverlapPrevention == [][C4_Steps]_vars /\ []C4_States

\* A tick found an earlier status request in flight and added its own.
C4_Witness ==
    \/ scraping.op = "tick" /\ scraping.statusReqs >= 2
    \/ orch.op = "tick" /\ orch.statusReqs >= 2 /\ orch.statsReqs >= 2

(***************************************************************************)
(* C5: TestAI shows the result of each test                                *)
(***************************************************************************)
\* The handler whose request the step settled, by test key.
TestOp(key) == CASE key = "jobMatch" -> "testJobMatching"
                 [] key = "coverLetter" -> "testCoverLetter"
                 [] OTHER -> "checkSystemHealth"

\* C5: after the request of a test succeeds, results[key] holds what the
\* backend returned, errors[key] is null and loading[key] is false; after it
\* fails, errors[key] holds the message, results[key] is null and
\* loading[key] is false; results[key] and errors[key] are never both
\* set to a value.
C5_ResultsDisplayed ==
    \A key \in TestKeys :
        /\ testAI.mounted /\ testAI.op = TestOp(key) /\ testAI.outcome = "ok"
              => /\ testAI.results[key] = Payload(key)
                 /\ testAI.errors[key] = Null
                 /\ testAI.loading[key] = "false"
        /\ testAI.mounted /\ testAI.op = TestOp(key)
                          /\ testAI.outcome \in Failures
              => /\ testAI.errors[key] = ErrorText(key, testAI.outcome)
                 /\ testAI.results[key] = Null
                 /\ testAI.loading[key] = "false"
        /\ ~(/\ testAI.results[key] \notin {Undefined, Null}
             /\ testAI.errors[key] \notin {Undefined, Null})

(***************************************************************************)
(* C6: the required fields of candidate onboarding                         *)
(***************************************************************************)
\* C6: while full_name or email is empty the wizard stays on step 1, and no
\* POST /api/candidates is sent with an empty full_name or an empty email.
C6_RequiredFields ==
    /\ onb.currentStep > 1 => onb.full_name # "" /\ onb.email # ""
    /\ onb.req.kind = "create" => onb.req.full_name # "" /\ onb.req.email # ""

(***************************************************************************)
(* C7: the four steps of the wizard                                        *)
(***************************************************************************)
WizardSteps == 1..4

C7_States ==
    /\ onb.currentStep \in WizardSteps
    /\ onb.op = "mount" => onb.currentStep = 1
    /\ \A k \in WizardSteps :
          /\ nextStep(k) = IF k < 4 THEN k + 1 ELSE k
          /\ prevStep(k) = IF k > 1 THEN k - 1 ELSE k
    /\ CandidateOnboarding_CreateOffered(onb) <=> onb.currentStep = 4
    /\ CandidateOnboarding_NextOffered(onb) <=> onb.currentStep < 4

C7_Steps ==
    /\ onb' # onb /\ onb'.op = "nextStep"
          => onb.currentStep < 4 /\ onb'.currentStep = onb.currentStep + 1
    /\ onb' # onb /\ onb'.op = "prevStep"
          => onb.currentStep > 1 /\ onb'.currentStep = onb.currentStep - 1
    /\ onb' # onb /\ onb'.op = "handleSubmit" /\ onb'.outcome = "none"
          => onb.currentStep = 4
    /\ onb'.op \notin {"nextStep", "prevStep"}
          => onb'.currentStep = onb.currentStep

\* C7: currentStep starts at 1 and stays within 1..4; nextStep adds exactly 1
\* below 4 and changes nothing at 4, prevStep subtracts exactly 1 above 1 and
\* changes nothing at 1; Create Candidate is offered, and handleSubmit
\* started, only at step 4, and Next is offered only below step 4.
C7_FourStepWizard == [][C7_Steps]_vars /\ []C7_States

\* The Next button has taken the wizard to its last step.
C7_Witness == onb.op = "nextStep" /\ onb.currentStep = 4

(***************************************************************************)
(* C8: the pagination of JobsList                                          *)
(***************************************************************************)
Max0(n) == IF n < 0 THEN 0 ELSE n

C8_States ==
    LET p == jobsList.pagination
    IN  /\ p.limit = 20
        /\ p.skip \in Nat
        /\ p.skip % p.limit = 0
        /\ nextPage(p) = [p EXCEPT !.skip = IF p.skip + 20 < p.total
                                            THEN p.skip + 20 ELSE p.skip]
        /\ prevPage(p) = [p EXCEPT !.skip = Max0(p.skip - 20)]

C8_Steps ==
    LET p == jobsList.pagination
        q == jobsList'.pagination
    IN  /\ JobsList_nextPage => p.skip + 20 < p.total /\ q.skip = p.skip + 20
        /\ JobsList_prevPage => q.skip = Max0(p.skip - 20)
        /\ JobsList_clearFilters => q.skip = 0
        /\ \A r \in Settled, o \in Outcomes, total \in Totals :
              jobsList.mounted /\ JobsList_settles(r, o, total) =>
                  q.skip = IF o = "ok" /\ r.kind # "stats" /\ r.reset THEN 0
                           ELSE p.skip
        /\ jobsList.mounted /\ q.skip # p.skip =>
              LET get == Raw(FALSE, q.skip, jobsList'.filters)
              IN  CopiesIn(get, jobsList'.inflight)
                      = CopiesIn(get, jobsList.inflight) + 1

\* C8: pagination.limit is always 20 and pagination.skip a non-negative
\* multiple of it; nextPage adds limit to skip when skip + limit < total and
\* otherwise changes nothing; prevPage sets skip to max(0, skip - limit);
\* clearFilters sets skip to 0, and so does fetchJobs(true) and searchJobs
\* when they write their response into the state; and every change of skip
\* sends one more GET /api/jobs/raw that carries the new skip.
C8_Pagination == [][C8_Steps]_vars /\ []C8_States

\* The second page has been asked for and its request is in flight.
C8_Witness ==
    /\ jobsList.mounted
    /\ jobsList.pagination.skip = 20
    /\ BagIn(Raw(FALSE, 20, jobsList.filters), jobsList.inflight)

(***************************************************************************)
(* C9: search and pagination                                               *)
(***************************************************************************)
\* C9: once searchJobs has run with a non-empty query, its response has
\* arrived and no request for jobs is in flight any more, the jobs on display
\* are those of the search for that query, also after nextPage or prevPage.
C9_SearchWithPagination ==
    (/\ jobsList.mounted
     /\ jobsList.search.ok
     /\ JobsList_JobRequests(jobsList) = {})
        => /\ jobsList.jobs.kind = "search"
           /\ jobsList.jobs.query = jobsList.search.query

(***************************************************************************)
(* C10: the priority filter and the search of JobMatching                  *)
(***************************************************************************)
\* term occurs in text when the case of the letters is ignored.
OccursIn(term, text) ==
    \E off \in 0..(Len(text) - Len(term)) :
        \A i \in 1..Len(term) : Lower(text[off + i]) = Lower(term[i])

Mentions(m, term) ==
    /\ m.job_data # None
    /\ \E f \in {"title", "company", "location"} :
          /\ m.job_data[1][f] # None
          /\ OccursIn(term, m.job_data[1][f][1])

Selected(m, filter, term) ==
    /\ filter = "all" \/ m.priority = filter
    /\ term = <<>> \/ Mentions(m, term)

\* out holds the selected elements of in, in the order of in.
IsSelectionOf(out, in, filter, term) ==
    LET I == {i \in 1..Len(in) : Selected(in[i], filter, term)}
    IN  /\ Len(out) = Cardinality(I)
        /\ \A i \in I : out[Cardinality({j \in I : j <= i})] = in[i]

\* C10: filteredMatches is the sub-sequence, in the same order, of the
\* matches whose priority is the filter (or the filter is 'all') and whose
\* job_data title, company or location contains searchTerm when case is
\* ignored (or searchTerm is empty); so it is all the matches when the filter
\* is 'all' and searchTerm empty, and holds no match without job_data when
\* searchTerm is not empty.
C10_FilteredMatches ==
    LET out == filteredMatches(matching)
    IN  matching.mounted =>
          /\ IsSelectionOf(out, matching.matches, matching.filter,
                           matching.searchTerm)
          /\ matching.filter = "all" /\ matching.searchTerm = <<>>
                => out = matching.matches
          /\ matching.searchTerm # <<>>
                => \A i \in 1..Len(out) : out[i].job_data # None

\* Two matches of which the filter and a search term in capitals keep the
\* second only.
C10_Witness ==
    /\ matching.filter = "high"
    /\ matching.searchTerm = <<"A", "B">>
    /\ Len(matching.matches) = 2
    /\ filteredMatches(matching) = <<matching.matches[2]>>

(***************************************************************************)
(* C11: the sidebar and the routes                                         *)
(***************************************************************************)
\* C11: every path of navItems has a matching Route, so after a click on any
\* sidebar link <Routes> renders a page component.
C11_NavigationComplete ==
    router.clicked => Routes(location(router)) # "nothing"

(***************************************************************************)
(* C12: the order of the steps of CandidateOnboarding.handleSubmit         *)
(***************************************************************************)
\* C12: POST /api/candidates is sent first; the upload is sent only after
\* that POST succeeded, only when a file was selected, and to the id of the
\* candidate just created; the navigation to /candidates/{id} happens only
\* after the creation and, with a file, the upload have succeeded; a failed
\* creation is followed by neither an upload nor a navigation.
C12_Upload ==
    (onb'.req.kind = "upload" /\ onb.req.kind # "upload")
        => /\ onb.req.kind = "create" /\ onb.req.file
           /\ onb'.op = "handleSubmit" /\ onb'.outcome = "ok"
           /\ onb'.created = onb.created + 1
           /\ onb'.req.id = onb'.created

C12_Navigation ==
    (onb'.navigated # onb.navigated)
        => \/ /\ onb.req.kind = "create" /\ ~onb.req.file
              /\ onb'.op = "handleSubmit" /\ onb'.outcome = "ok"
              /\ onb'.created = onb.created + 1
              /\ onb'.navigated = onb'.created
           \/ /\ onb.req.kind = "upload"
              /\ onb'.op = "uploadResume" /\ onb'.outcome = "ok"
              /\ onb.req.id = onb.created
              /\ onb'.navigated = onb.req.id

C12_FailedCreation ==
    (CandidateOnboarding_handleSubmit_settle /\ onb'.outcome # "ok")
        => /\ onb'.req = NoRequest
           /\ onb'.navigated = onb.navigated
           /\ onb'.created = onb.created

C12_CreationFirst ==
    (onb'.req.kind = "create" /\ onb.req.kind # "create")
        => /\ CandidateOnboarding_handleSubmit
           /\ onb.req = NoRequest

C12_HandleSubmitOrder ==
    [][C12_Upload /\ C12_Navigation /\ C12_FailedCreation
          /\ C12_CreationFirst]_vars

\* A candidate was created, the resume uploaded to it, then the navigation.
C12_Witness ==
    /\ onb.op = "uploadResume" /\ onb.outcome = "ok"
    /\ onb.navigated = onb.created /\ onb.created > 0

(***************************************************************************)
(* C13: what a failed handleSubmit leaves on the backend                   *)
(***************************************************************************)
\* C13: when handleSubmit ends with the toast 'Failed to create candidate',
\* that attempt has created no candidate; so one wizard session, whatever
\* the number of clicks on Create Candidate, creates at most one candidate.
\* (A successful attempt navigates away and ends the session, so the
\* attempts before a failure toast have all failed.)
C13_FailureCreatesNothing ==
    /\ (onb.notice = "Failed to create candidate") => onb.created = 0
    /\ onb.created <= 1

(***************************************************************************)
(* C14: the gating of the Start and Stop buttons of AutomationOrchestrator *)
(***************************************************************************)
\* C14: a start request is sent only when isLoading is false and
\* systemStatus is not 'running', a stop request only when isLoading is
\* false and systemStatus is not 'stopped', so at most one start/stop
\* request is in flight; a successful start sets systemStatus to
\* 'initializing', a successful stop sets it to 'stopped', and a failed
\* response or an exception of either leaves systemStatus as it was.
C14_Sent ==
    /\ (orch'.ctlReq = "start" /\ orch.ctlReq # "start")
          => /\ orch.mounted /\ ~orch.isLoading /\ orch.ctlReq = "none"
             /\ orch.systemStatus # "running"
    /\ (orch'.ctlReq = "stop" /\ orch.ctlReq # "stop")
          => /\ orch.mounted /\ ~orch.isLoading /\ orch.ctlReq = "none"
             /\ orch.systemStatus # "stopped"

C14_Settled ==
    /\ AutomationOrchestrator_startAutonomousSystem_settle
          => orch'.systemStatus =
                IF orch'.outcome = "ok" /\ orch.mounted THEN "initializing"
                ELSE orch.systemStatus
    /\ AutomationOrchestrator_stopAutonomousSystem_settle
          => orch'.systemStatus =
                IF orch'.outcome = "ok" /\ orch.mounted THEN "stopped"
                ELSE orch.systemStatus

\* While a start or stop request of a mounted page is in flight the two
\* buttons are disabled.
C14_InFlight == (orch.mounted /\ orch.ctlReq # "none") => orch.isLoading

C14_ControlGating == [](C14_InFlight) /\ [][C14_Sent /\ C14_Settled]_vars

\* A start request has just been sent from the 'error' status.
C14_Witness ==
    /\ orch.op = "startAutonomousSystem" /\ orch.ctlReq = "start"
    /\ orch.systemStatus = "error"

(***************************************************************************)
(* C15: a successful stop and the status responses that arrive after it    *)
(***************************************************************************)
\* C15: once stopAutonomousSystem has succeeded and set systemStatus to
\* 'stopped', the response to a status request issued before the stop
\* completed does not change systemStatus.  In the state right after the
\* successful stop every status request in flight was issued before it.
C15_StopNotUndone ==
    [][(/\ orch.mounted
        /\ orch.op = "stopAutonomousSystem" /\ orch.outcome = "ok"
        /\ orch.systemStatus = "stopped"
        /\ AutomationOrchestrator_fetchSystemStatus_settle)
           => orch'.systemStatus = "stopped"]_vars

(***************************************************************************)
(* C16: one submission operation at a time in ApplicationSubmission        *)
(***************************************************************************)
\* The submission operations in progress.
AutoInProgress == subm.autoReq
TestInProgress == subm.testReq
BulkInProgress == subm.bulk.idx > 0
InProgress ==
    (IF AutoInProgress THEN 1 ELSE 0) + (IF TestInProgress THEN 1 ELSE 0)
        + (IF BulkInProgress THEN 1 ELSE 0)

\* C16: submissionStatus is one of 'idle', 'running', 'testing'; each of the
\* three operations starts only from 'idle'; Auto and Bulk set 'running',
\* Test sets 'testing'; so at most one operation is in progress, and
\* submissionStatus is 'idle' again only when that operation has finished.
C16_States ==
    /\ subm.submissionStatus \in {"idle", "running", "testing"}
    /\ InProgress <= 1
    /\ subm.mounted =>
          /\ (subm.submissionStatus = "idle") <=> (InProgress = 0)
          /\ (subm.submissionStatus = "testing") <=> TestInProgress
          /\ (subm.submissionStatus = "running")
                <=> (AutoInProgress \/ BulkInProgress)

C16_Steps ==
    /\ (InProgress' > InProgress)
          => /\ subm.mounted /\ subm.submissionStatus = "idle"
             /\ InProgress = 0
             /\ subm'.submissionStatus =
                   IF TestInProgress' THEN "testing" ELSE "running"
    /\ (subm.submissionStatus # "idle" /\ subm'.submissionStatus = "idle")
          => InProgress = 1 /\ InProgress' = 0

C16_MutualExclusion == [](C16_States) /\ [][C16_Steps]_vars

\* The loop of a bulk submission is at its second candidate.
C16_Witness ==
    /\ subm.mounted /\ subm.bulk.idx = 2
    /\ subm.submissionStatus = "running"

(***************************************************************************)
(* C17: the loop of ApplicationSubmission.handleBulkSubmit                 *)
(***************************************************************************)
\* The ids of the first n of the loaded jobs.
FirstJobs(jobs, n) ==
    [i \in 1..(IF Len(jobs) < n THEN Len(jobs) ELSE n) |-> jobs[i]]

\* C17: the requests go out one after another in the order of
\* selectedCandidates, each awaited before the next, all with the ids of
\* the first batchSize loaded jobs and the configured method; success=false
\* for one candidate does not stop the loop, a thrown error ends it; the
\* alert 'Bulk submission completed' and the refresh of the statistics and
\* the recent applications happen only when the loop reached its end.
C17_Start ==
    (BulkInProgress' /\ ~BulkInProgress)
        => /\ subm.selectedCandidates # <<>>
           /\ subm'.bulk.list = subm.selectedCandidates
           /\ BulkRequest(subm'.bulk) =
                 [candidate_id |-> subm.selectedCandidates[1],
                  job_ids |-> FirstJobs(subm.jobs, subm.batchSize),
                  method |-> subm.method]

C17_Loop ==
    ApplicationSubmission_handleBulkSubmit_settle
        => LET b == subm.bulk
               refreshed == /\ subm'.statsReqs = subm.statsReqs + 1
                            /\ subm'.recentReqs = subm.recentReqs + 1
               notRefreshed == /\ subm'.statsReqs = subm.statsReqs
                               /\ subm'.recentReqs = subm.recentReqs
           IN  CASE subm'.outcome = "throw" ->
                      /\ ~BulkInProgress' /\ notRefreshed
                      /\ subm'.notice = "Error with bulk submission"
                 [] subm'.outcome # "throw" /\ b.idx < Len(b.list) ->
                      /\ BulkRequest(subm'.bulk) =
                            [BulkRequest(b) EXCEPT
                                !.candidate_id = b.list[b.idx + 1]]
                      /\ subm'.bulk.list = b.list
                      /\ notRefreshed
                      /\ subm'.notice = "none"
                 [] OTHER ->
                      /\ ~BulkInProgress' /\ refreshed
                      /\ subm'.notice = "Bulk submission completed"

C17_Others ==
    ~ApplicationSubmission_handleBulkSubmit_settle
        => /\ BulkInProgress => subm'.bulk = subm.bulk
           /\ subm'.notice # "Bulk submission completed"

C17_BulkSequence == [][C17_Start /\ C17_Loop /\ C17_Others]_vars

\* A response with success=false for the first of two candidates, and the
\* request for the second in flight.
C17_Witness ==
    /\ subm.op = "handleBulkSubmit" /\ subm.outcome = "fail"
    /\ subm.bulk.idx = 2 /\ Len(subm.bulk.list) = 2
    /\ subm.bulk.jobIds # <<>>

(***************************************************************************)
(* C18: what JobsList shows after clearFilters                             *)
(***************************************************************************)
\* C18: after clearFilters on a list with a filter set, once every request
\* in flight has settled (in any order), filters and searchQuery are empty,
\* pagination.skip is 0 and the jobs on display are the response to a
\* GET /api/jobs/raw with no filter parameter and skip 0.
C18_ClearFiltersShowsUnfiltered ==
    (jobsList.filters = "" /\ jobsList.inflight = EmptyBag)
        => /\ jobsList.searchQuery = ""
           /\ jobsList.pagination.skip = 0
           /\ jobsList.jobs.kind = "raw"
           /\ jobsList.jobs.filters = ""
           /\ jobsList.jobs.skip = 0

(***************************************************************************)
(* C19: the loading indicator of JobsList                                  *)
(***************************************************************************)
\* C19: loading is true in every state in which a jobs request issued by
\* fetchJobs or searchJobs is in flight, so the spinner stays until the
\* last outstanding jobs request has settled.
C19_LoadingWhileInFlight ==
    (jobsList.mounted /\ JobsList_JobRequests(jobsList) # {})
        => jobsList.loading

(***************************************************************************)
(* C20: a selected candidate's matches in JobMatching                      *)
(***************************************************************************)
\* selectedCandidate has just become c: by the automatic selection when the
\* candidate list loaded, or by the dropdown.
JustSelected(c) ==
    /\ matching.mounted /\ matching.selectedCandidate = c
    /\ \/ matching.op = "fetchCandidates" /\ matching.outcome = "ok"
       \/ matching.op = "handleCandidateChange" /\ matching.arg = c

\* A GET /api/candidates/{c}/matches has been issued and is in flight.
MatchesRequested(c) ==
    \/ matching.matchReqs[c] > 0
    \/ matching.proc.phase = "matches" /\ matching.proc.cand = c
    \/ matching.all.phase = "matches" /\ matching.all.cand = c

\* C20: whenever selectedCandidate becomes a non-empty id, by the dropdown
\* or by the automatic selection of the first candidate, a
\* GET /api/candidates/{id}/matches for that id is eventually issued.
C20_SelectionLoadsMatches ==
    \A c \in Candidates : [](JustSelected(c) => <>MatchesRequested(c))

(***************************************************************************)
(* C21: how JobScraping handles its status responses                       *)
(***************************************************************************)
\* C21: scrapingStatus is replaced only by a status response with
\* success=true; success=false or a thrown error leaves it as it was and
\* resets refreshing to false; while scrapingStatus is null the component
\* renders the spinner and none of its controls, and the 30-second polling
\* goes on.
C21_Replaced ==
    (scraping'.scrapingStatus # scraping.scrapingStatus)
        => /\ JobScraping_fetchScrapingStatus_settle
           /\ scraping'.outcome = "ok"
           /\ scraping'.scrapingStatus \in StatusData

C21_Failed ==
    (JobScraping_fetchScrapingStatus_settle /\ scraping'.outcome \in Failures)
        => /\ scraping'.scrapingStatus = scraping.scrapingStatus
           /\ scraping.mounted => ~scraping'.refreshing

C21_Spinner ==
    (\/ JobScraping_Refresh
     \/ JobScraping_startManualScraping
     \/ JobScraping_controlScheduler)
        => scraping.scrapingStatus # "null"

\* The interval stays set as long as the component is mounted, whatever
\* scrapingStatus is.
C21_Polling == scraping.mounted => scraping.interval

C21_StatusHandling ==
    [](C21_Polling) /\ [][C21_Replaced /\ C21_Failed /\ C21_Spinner]_vars

\* A status request failed after data had been loaded, and the data stays.
C21_Witness ==
    /\ scraping.mounted
    /\ scraping.op = "fetchScrapingStatus" /\ scraping.outcome \in Failures
    /\ scraping.scrapingStatus \in StatusData
    /\ ~scraping.refreshing

(***************************************************************************)
(* C22: the four requests of Dashboard.fetchDashboardData                  *)
(***************************************************************************)
\* C22: a failure of GET /api/resume-tailoring/stats or of
\* GET /api/cover-letters/stats/overview is tolerated: that section gets its
\* zero-valued defaults, stats is still set from the other responses and no
\* error toast is shown.  A failure of GET /api/dashboard/stats or of
\* GET /api/scraping/status leaves stats as it was, issues no later request
\* of the sequence and shows the toast 'Failed to load dashboard data'.  In
\* every case loading becomes false.  Independently, a failed
\* GET /api/health sets systemStatus to {status: 'unhealthy'}.
C22_Tolerated ==
    (/\ Dashboard_fetchDashboardData_settle
     /\ dash.step \in {3, 4} /\ dash'.outcome \in Failures)
        => /\ dash'.notice = "none"
           /\ dash.step = 3
                 => /\ dash'.step = 4
                    /\ dash'.acc = [dash.acc EXCEPT !.tailoring = "defaults"]
                    /\ dash'.stats = dash.stats
           /\ (dash.step = 4 /\ dash.mounted)
                 => dash'.stats = [dash.acc EXCEPT !.coverLetters = "defaults"]

C22_NotTolerated ==
    (/\ Dashboard_fetchDashboardData_settle
     /\ dash.step \in {1, 2} /\ dash'.outcome \in Failures)
        => /\ dash'.stats = dash.stats
           /\ dash'.step = 0
           /\ dash'.notice = "Failed to load dashboard data"

C22_OnlyThen ==
    /\ (dash'.notice = "Failed to load dashboard data"
           /\ dash.notice # dash'.notice)
          => dash.step \in {1, 2} /\ dash'.outcome \in Failures
    /\ (dash'.stats # dash.stats)
          => /\ dash.step = 4
             /\ dash'.stats.dashboard = dash.acc.dashboard
             /\ dash'.stats.scraping = dash.acc.scraping
             /\ dash'.stats.tailoring = dash.acc.tailoring
    \* no request follows the end of the sequence
    /\ dash.step = 0 => dash'.step = 0

C22_Health ==
    Dashboard_checkSystemHealth_settle
        => /\ (dash.mounted /\ dash'.outcome \in Failures)
                 => dash'.systemStatus = "unhealthy"
           /\ dash'.stats = dash.stats /\ dash'.step = dash.step
           /\ dash'.loading = dash.loading

\* Once the sequence has ended, loading is false.
C22_Loaded == (dash.mounted /\ dash.step = 0) => ~dash.loading

C22_DashboardRequests ==
    /\ [](C22_Loaded)
    /\ [][C22_Tolerated /\ C22_NotTolerated /\ C22_OnlyThen /\ C22_Health]_vars

\* The resume tailoring request failed, and stats has been set with the
\* defaults for that section and the responses of the others.
C22_Witness ==
    /\ dash.mounted /\ dash.step = 0 /\ ~dash.loading
    /\ dash.stats.tailoring = "defaults"
    /\ dash.stats.dashboard \in DashboardData
    /\ dash.stats.coverLetters = "stats"

=============================================================================
